---- MODULE Spec2Model ----
(***************************************************************************)
(* Verification model of the mytunnel server data plane:                   *)
(*   - the connection slab (src/src/pool/slab.rs), at the granularity of   *)
(*     its atomic operations (load, compare_exchange, slot lock, fetch_or, *)
(*     fetch_add/fetch_sub), under SlabSpec;                               *)
(*   - the buffer pool (src/src/pool/buffer.rs), one action per call,      *)
(*     under PoolSpec;                                                     *)
(*   - the stream handler (src/src/server/acceptor.rs, proxy/tcp.rs),      *)
(*     under StreamSpec;                                                   *)
(*   - the connection manager, accept loop, per-connection tasks and the   *)
(*     shutdown sequence, one action per manager call or await point,      *)
(*     under ServerSpec.                                                   *)
(* Option<T> is modelled as a set: None == {} and Some(v) == {v}.          *)
(* A 64-bit bitset word is modelled as the set of its set bit positions.   *)
(***************************************************************************)
EXTENDS Integers, Sequences, FiniteSets, Bags, TLC

\* ------------------------------------------------------------------------
\* Bounds of the model
\* ------------------------------------------------------------------------

\* Width of one bitset word.  The program uses 64 (AtomicU64); the model
\* keeps the word-wise structure with narrower words so that a capacity
\* spanning several words, and one that is not a multiple of the word
\* width, are both reached.
WordBits == 2

\* Largest slab capacity explored by SlabSpec (all of 0..MaxCapacity).
MaxCapacity == 3

\* Number of threads calling insert/remove concurrently in SlabSpec.
NumProcs == 2

\* Number of distinct values inserted into the slab in SlabSpec.
NumValues == 1

\* Largest number of chunks the pump relays in each direction of a stream.
MaxChunks == 2

\* Largest number of pre-allocated buffers per tier explored by PoolSpec.
MaxBuffers == 1

\* Largest number of Buffer handles alive at once in PoolSpec.
MaxHeld == 2

\* Largest number of fresh allocations made by acquire_or_alloc in PoolSpec.
MaxFresh == 2

\* pool.connection_slots of the server explored by ServerSpec.
ConnectionSlots == 1

\* Number of clients that connect to the server in ServerSpec.
NumClients == 2

\* Last instant of the logical clock of ServerSpec.
MaxTime == 3

\* quic.idle_timeout_secs, in ticks of the logical clock.
IdleTimeout == 2

\* The drain deadline passed by Server::shutdown (30 s), in ticks.
DrainTimeout == 1

\* Largest number of chunks relayed by the stream handlers in ServerSpec.
MaxRelays == 2

\* Longest payload, in bytes, carried by a datagram or following a request.
MaxPayload == 2

\* Largest number of streams the clients open in ServerSpec.
MaxStreams == 1

\* Largest number of counter updates made around the snapshots of MetricsSpec.
MaxUpdates == 2

\* SOCKET_TTL of the UDP socket pool (60 s in the code), in clock ticks.
SocketTtl == 2

\* Number of UDP targets, and largest number of get_or_create calls.
NumTargets == 2
MaxGets == 3

\* Largest number of datagrams the clients send.
MaxDatagrams == 2

\* Number of tasks calling the connection manager in ManagerSpec.
NumCallers == 2

\* Largest number of register calls made in ManagerSpec.
MaxRegisters == 4

\* The register calls explored with the cleanup task running, and those
\* explored with the locks.
MaxRaceRegisters == 2

\* Largest number of slab calls made in a row in SlabCallSpec.
MaxCalls == 5

\* Width of the pool's usize counters.  The program's AtomicUsize wraps
\* modulo 2^64; the model keeps the wrap-around at a narrower width.
UsizeBits == 16

\* ------------------------------------------------------------------------
\* Option<T>
\* ------------------------------------------------------------------------

None == {}

Some(v) == {v}

IsSome(o) == o # {}

Unwrap(o) == CHOOSE v \in o : TRUE

\* ------------------------------------------------------------------------
\* State
\* ------------------------------------------------------------------------

VARIABLES
    \* ConnectionSlab
    capacity,       \* ConnectionSlab::capacity
    free_bitset,    \* seq of words; a word is the set of its 1 (= free) bits
    slots,          \* slot index -> Option<T>
    slot_lock,      \* slot index -> Option<thread holding the slot Mutex>
    allocated,      \* AtomicUsize
    \* threads of SlabSpec
    spc,            \* thread -> position inside insert / remove
    sloc,           \* thread -> locals of the running call
    live,           \* slot index -> number of live handles naming it
    \* BufferPool (one entry per tier)
    queue,          \* tier -> ArrayQueue contents (length of each region)
    queue_cap,      \* tier -> ArrayQueue capacity
    pool_allocated, \* tier -> *_allocated
    in_use,         \* tier -> *_in_use
    held,           \* bag of the Buffer handles alive outside the pool
    fresh_allocs,   \* number of fresh allocations made so far
    pool_last,      \* the last pool call and what it returned
    \* global METRICS counters
    metrics,
    \* one bidirectional stream and its StreamHandler (StreamSpec)
    stream,
    \* ConnectionManager (its slab is the ConnectionSlab above)
    id_to_handle,   \* DashMap<ConnectionId, SlabHandle>
    next_id,        \* AtomicU64
    \* server (ServerSpec)
    conn,           \* client -> its QUIC connection and per-connection task
    srv,            \* main task: accept loop, then Server::shutdown
    cleanup,        \* the idle-cleanup task spawned by Server::run
    now,            \* Instant::now()
    \* callers of the slab and of the manager (SlabCallSpec, ManagerSpec)
    calls,          \* the slab calls made so far and what they returned
    mcall,          \* caller -> position inside register / unregister
    issued,         \* the ids minted by register, in the order of minting
    \* wire protocol (CodecSpec) and the client's HTTP proxy (TunnelSpec)
    codec,          \* one request or datagram on its way through the codecs
    http,           \* one CONNECT handled by the client's HTTP proxy
    \* components exercised on their own
    route,          \* one request put to RoutingPolicy::decide (PolicySpec)
    snaps,          \* one thread calling Metrics::snapshot (MetricsSpec)
    sockets         \* UdpSocketPool and its callers (SocketPoolSpec)

slabVars == <<capacity, free_bitset, slots, slot_lock, allocated>>

procVars == <<spc, sloc, live>>

poolVars == <<queue, queue_cap, pool_allocated, in_use, held, fresh_allocs,
              pool_last>>

serverVars == <<id_to_handle, next_id, conn, srv, cleanup, now>>

callerVars == <<calls, mcall, issued>>

clientVars == <<codec, http>>

auxVars == <<route, snaps, sockets>>

notRoute == <<slabVars, procVars, poolVars, metrics, stream, serverVars,
             callerVars, clientVars, snaps, sockets>>

\* Everything outside the metrics and the thread taking snapshots.
notSnaps == <<slabVars, procVars, poolVars, stream, serverVars, callerVars,
             clientVars, route, sockets>>

notSockets == <<slabVars, procVars, poolVars, metrics, stream, serverVars,
               callerVars, clientVars, route, snaps>>

\* Everything outside the UDP relay and the metrics.
notRelay == <<slabVars, procVars, poolVars, stream, serverVars, callerVars,
             clientVars, route, snaps>>

\* Everything outside the slab and its SlabSpec threads.
notSlab == <<poolVars, metrics, stream, serverVars, callerVars, clientVars, auxVars>>

\* Everything outside the buffer pool.
notPool == <<slabVars, procVars, metrics, stream, serverVars, callerVars,
             clientVars, auxVars>>

\* Everything outside the stream handler and the metrics.
notStream == <<slabVars, procVars, poolVars, serverVars, callerVars, clientVars, auxVars>>

\* Everything the server never touches.
notCodec == <<slabVars, procVars, poolVars, metrics, stream, serverVars,
             callerVars, http, auxVars>>

notHttp == <<slabVars, procVars, poolVars, metrics, stream, serverVars,
            callerVars, codec, auxVars>>

notServer == <<procVars, poolVars, stream, callerVars, clientVars, auxVars>>

vars == <<capacity, free_bitset, slots, slot_lock, allocated,
          spc, sloc, live,
          queue, queue_cap, pool_allocated, in_use, held, fresh_allocs,
          pool_last, metrics, stream,
          id_to_handle, next_id, conn, srv, cleanup, now,
          calls, mcall, issued, codec, http, auxVars>>

\* ------------------------------------------------------------------------
\* ConnectionSlab: pure helpers
\* ------------------------------------------------------------------------

Procs == 1..NumProcs

Values == 1..NumValues

Min(S) == CHOOSE x \in S : \A y \in S : x <= y

Max(S) == CHOOSE x \in S : \A y \in S : x >= y

\* (capacity + 63) / 64
NumWords(cap) == (cap + (WordBits - 1)) \div WordBits

\* num_words * 64
ActualCapacity(cap) == NumWords(cap) * WordBits

\* u64::MAX
WordMax == 0..(WordBits - 1)

\* (1u64 << valid_bits) - 1
LowBits(valid_bits) == 0..(valid_bits - 1)

\* Initial value of word i (0-based) of the bitset, as computed by new().
InitWord_AllOnes(cap, i) == WordMax

InitWord(cap, i) ==
    IF i = NumWords(cap) - 1 /\ cap % WordBits # 0
    THEN LowBits(cap % WordBits)
    ELSE IF i * WordBits < cap THEN WordMax ELSE {}

\* current.trailing_zeros()
TrailingZeros(word) == Min(word)

\* compare_exchange(current, new): succeeds iff the word still holds current.
CasSucceeds_Blind(word, current) == TRUE

CasSucceeds(word, current) == word = current

\* current & !mask
ClearBit(word, bit) == word \ {bit}

\* fetch_or(mask)
SetBit_Lost(word, bit) == word

SetBit(word, bit) == word \cup {bit}

\* allocated.fetch_sub(1)
AllocatedAfterRemove_NoSub(a) == a

AllocatedAfterRemove(a) == a - 1

\* Words are numbered from 0 in the code; the sequence is 1-based.
Word(w) == free_bitset[w + 1]

\* ------------------------------------------------------------------------
\* ConnectionSlab: observers used by the properties
\* ------------------------------------------------------------------------

SlotIndices == 0..(ActualCapacity(capacity) - 1)

OccupiedSlots == {i \in SlotIndices : IsSome(slots[i])}

\* Bits of the bitset that are 0 within [0, capacity).
ClearedBits ==
    {i \in 0..(capacity - 1) : (i % WordBits) \notin Word(i \div WordBits)}

\* Bits of the bitset that are 1 at positions >= capacity.
SetBitsBeyondCapacity ==
    {i \in SlotIndices : i >= capacity /\ (i % WordBits) \in Word(i \div WordBits)}

\* ------------------------------------------------------------------------
\* ConnectionSlab::new
\* ------------------------------------------------------------------------

SlabNew(cap) ==
    /\ capacity = cap
    /\ free_bitset = [w \in 1..NumWords(cap) |-> InitWord(cap, w - 1)]
    /\ slots = [i \in 0..(ActualCapacity(cap) - 1) |-> None]
    /\ slot_lock = [i \in 0..(ActualCapacity(cap) - 1) |-> None]
    /\ allocated = 0

\* ------------------------------------------------------------------------
\* SlabSpec: threads calling insert and remove
\* ------------------------------------------------------------------------

NoLocals == [op |-> "none"]

OthersIdle(p) == \A q \in Procs \ {p} : spc[q] = "idle"

\* What a call remembers of the state at its entry while it runs alone.
Entry(p) ==
    IF OthersIdle(p)
    THEN [solo |-> TRUE, occ0 |-> Cardinality(OccupiedSlots),
          snap |-> <<free_bitset, slots, allocated>>]
    ELSE [solo |-> FALSE, occ0 |-> 0, snap |-> <<>>]

\* A step of thread p ends the "ran alone" status of every other running
\* insert.
Disturb(p) ==
    [q \in Procs |->
        IF q # p /\ sloc[q].op = "insert"
        THEN [sloc[q] EXCEPT !.entry = [solo |-> FALSE, occ0 |-> 0, snap |-> <<>>]]
        ELSE sloc[q]]

\* insert(value): entry.
InsertCall(p, v) ==
    /\ spc[p] = "idle"
    /\ spc' = [spc EXCEPT ![p] = "ins_load"]
    /\ sloc' = [Disturb(p) EXCEPT ![p] =
                  [op |-> "insert", value |-> v, word_idx |-> 0,
                   current |-> {}, slot_idx |-> 0, entry |-> Entry(p)]]
    /\ UNCHANGED <<slabVars, live, notSlab>>

\* insert: the for loop is exhausted: None is about to be returned.
InsertFull(p) ==
    /\ spc[p] = "ins_load"
    /\ sloc[p].word_idx >= NumWords(capacity)
    /\ spc' = [spc EXCEPT ![p] = "ins_none"]
    /\ sloc' = Disturb(p)
    /\ UNCHANGED <<slabVars, live, notSlab>>

\* insert: return None.
InsertReturnNone(p) ==
    /\ spc[p] = "ins_none"
    /\ spc' = [spc EXCEPT ![p] = "idle"]
    /\ sloc' = [Disturb(p) EXCEPT ![p] = NoLocals]
    /\ UNCHANGED <<slabVars, live, notSlab>>

\* insert: word.load(Acquire), then the two break tests and the choice of
\* the bit to claim.
InsertLoad(p) ==
    /\ spc[p] = "ins_load"
    /\ sloc[p].word_idx < NumWords(capacity)
    /\ LET w == sloc[p].word_idx
           current == Word(w)
       IN  IF current = {}
           THEN /\ sloc' = [Disturb(p) EXCEPT ![p].word_idx = w + 1]
                /\ spc' = spc
           ELSE LET slot_idx == w * WordBits + TrailingZeros(current)
                IN  IF slot_idx >= capacity
                    THEN /\ sloc' = [Disturb(p) EXCEPT ![p].word_idx = w + 1]
                         /\ spc' = spc
                    ELSE /\ sloc' = [Disturb(p) EXCEPT ![p].current = current,
                                                       ![p].slot_idx = slot_idx]
                         /\ spc' = [spc EXCEPT ![p] = "ins_cas"]
    /\ UNCHANGED <<slabVars, live, notSlab>>

\* insert: compare_exchange(current, current & !mask).
InsertCas(p) ==
    /\ spc[p] = "ins_cas"
    /\ LET w == sloc[p].word_idx
           bit == sloc[p].slot_idx % WordBits
       IN  IF CasSucceeds(Word(w), sloc[p].current)
           THEN /\ free_bitset' = [free_bitset EXCEPT
                                     ![w + 1] = ClearBit(sloc[p].current, bit)]
                /\ spc' = [spc EXCEPT ![p] = "ins_lock"]
                /\ sloc' = [Disturb(p) EXCEPT ![p].current = {}]
           ELSE /\ free_bitset' = free_bitset
                /\ spc' = [spc EXCEPT ![p] = "ins_load"]
                /\ sloc' = [Disturb(p) EXCEPT ![p].current = {}, ![p].slot_idx = 0]
    /\ UNCHANGED <<capacity, slots, slot_lock, allocated, live, notSlab>>

\* insert: slots[slot_idx].lock(); *slot = Some(value).
InsertWrite(p) ==
    /\ spc[p] = "ins_lock"
    /\ slot_lock[sloc[p].slot_idx] = None
    /\ slot_lock' = [slot_lock EXCEPT ![sloc[p].slot_idx] = Some(p)]
    /\ slots' = [slots EXCEPT ![sloc[p].slot_idx] = Some(sloc[p].value)]
    /\ spc' = [spc EXCEPT ![p] = "ins_add"]
    /\ sloc' = Disturb(p)
    /\ UNCHANGED <<capacity, free_bitset, allocated, live, notSlab>>

\* insert: allocated.fetch_add(1, Relaxed); return Some(SlabHandle(slot_idx))
\* (the slot guard is dropped by the return).
InsertAddReturn(p) ==
    /\ spc[p] = "ins_add"
    /\ allocated' = allocated + 1
    /\ slot_lock' = [slot_lock EXCEPT ![sloc[p].slot_idx] = None]
    /\ spc' = [spc EXCEPT ![p] = "idle"]
    /\ live' = [live EXCEPT ![sloc[p].slot_idx] = @ + 1]
    /\ sloc' = [Disturb(p) EXCEPT ![p] = NoLocals]
    /\ UNCHANGED <<capacity, free_bitset, slots, notSlab>>

\* Locals of a running remove(handle).
RemoveLocals(p, idx, value) ==
    [op |-> "remove", value |-> value, slot_idx |-> idx]

\* remove(handle): idx >= self.capacity: None is about to be returned.
RemoveOutOfRange(p, idx) ==
    /\ spc[p] = "idle"
    /\ idx >= capacity
    /\ spc' = [spc EXCEPT ![p] = "rm_none"]
    /\ sloc' = [Disturb(p) EXCEPT ![p] = RemoveLocals(p, idx, None)]
    /\ UNCHANGED <<slabVars, live, notSlab>>

\* remove(handle): slots[idx].lock(); slot.take()? on an empty slot (the
\* guard is dropped by the early return).
RemoveEmpty(p, idx) ==
    /\ spc[p] = "idle"
    /\ idx < capacity
    /\ slot_lock[idx] = None
    /\ slots[idx] = None
    /\ spc' = [spc EXCEPT ![p] = "rm_none"]
    /\ sloc' = [Disturb(p) EXCEPT ![p] = RemoveLocals(p, idx, None)]
    /\ UNCHANGED <<slabVars, live, notSlab>>

\* remove: return None.
RemoveReturnNone(p) ==
    /\ spc[p] = "rm_none"
    /\ spc' = [spc EXCEPT ![p] = "idle"]
    /\ sloc' = [Disturb(p) EXCEPT ![p] = NoLocals]
    /\ UNCHANGED <<slabVars, live, notSlab>>

\* remove(handle): slots[idx].lock(); slot.take() on an occupied slot.
RemoveTake(p, idx) ==
    /\ spc[p] = "idle"
    /\ idx < capacity
    /\ slot_lock[idx] = None
    /\ IsSome(slots[idx])
    /\ slot_lock' = [slot_lock EXCEPT ![idx] = Some(p)]
    /\ slots' = [slots EXCEPT ![idx] = None]
    /\ spc' = [spc EXCEPT ![p] = "rm_or"]
    /\ sloc' = [Disturb(p) EXCEPT ![p] = RemoveLocals(p, idx, slots[idx])]
    /\ UNCHANGED <<capacity, free_bitset, allocated, live, notSlab>>

\* remove: free_bitset[word_idx].fetch_or(mask, Release).
RemoveFetchOr(p) ==
    /\ spc[p] = "rm_or"
    /\ LET word_idx == sloc[p].slot_idx \div WordBits
           bit_idx == sloc[p].slot_idx % WordBits
       IN  free_bitset' = [free_bitset EXCEPT
                             ![word_idx + 1] = SetBit(@, bit_idx)]
    /\ spc' = [spc EXCEPT ![p] = "rm_sub"]
    /\ sloc' = Disturb(p)
    /\ UNCHANGED <<capacity, slots, slot_lock, allocated, live, notSlab>>

\* remove: allocated.fetch_sub(1, Relaxed); return Some(value) (the slot
\* guard is dropped by the return).
RemoveSubReturn(p) ==
    /\ spc[p] = "rm_sub"
    /\ allocated' = AllocatedAfterRemove(allocated)
    /\ slot_lock' = [slot_lock EXCEPT ![sloc[p].slot_idx] = None]
    /\ spc' = [spc EXCEPT ![p] = "idle"]
    /\ live' = [live EXCEPT ![sloc[p].slot_idx] = 0]
    /\ sloc' = [Disturb(p) EXCEPT ![p] = NoLocals]
    /\ UNCHANGED <<capacity, free_bitset, slots, notSlab>>

\* remove(handle) called by a further thread, which runs from its lock to
\* its return without another thread's step in between.
RemoveByOther(idx) ==
    /\ idx < capacity
    /\ slot_lock[idx] = None
    /\ IsSome(slots[idx])
    /\ slots' = [slots EXCEPT ![idx] = None]
    /\ free_bitset' = [free_bitset EXCEPT
                         ![(idx \div WordBits) + 1] = SetBit(@, idx % WordBits)]
    /\ allocated' = AllocatedAfterRemove(allocated)
    /\ live' = [live EXCEPT ![idx] = 0]
    /\ sloc' = Disturb(0)
    /\ UNCHANGED <<capacity, slot_lock, spc, notSlab>>

\* ------------------------------------------------------------------------
\* BufferPool
\* ------------------------------------------------------------------------

Tiers == {"Small", "Medium", "Large"}

SmallSize == 4096

MediumSize == 16384

LargeSize == 65536

\* BufferSize::as_usize
AsUsize(size) ==
    CASE size = "Small" -> SmallSize
      [] size = "Medium" -> MediumSize
      [] size = "Large" -> LargeSize

UsizeModulus == 2 ^ UsizeBits

\* AtomicUsize::fetch_add / fetch_sub wrap around.
WrappingAdd(x, n) == (x + n) % UsizeModulus

WrappingSub(x, n) == (x - n) % UsizeModulus

\* ArrayQueue::push: Err (the region is dropped) when the queue is full.
QueuePush(q, cap, data) == IF Len(q) < cap THEN Append(q, data) ELSE q

\* A Buffer handle: the region's length, its tier, and whether the region
\* came from a fresh allocation rather than from the queue.
BufferOf(size, len, fresh) == [size |-> size, len |-> len, fresh |-> fresh]

\* Number of live Buffer handles whose region was freshly allocated by
\* acquire_or_alloc, per tier.
OutstandingOverflow(size) ==
    CopiesIn(BufferOf(size, AsUsize(size), TRUE), held)

\* Every Buffer handle the pool can hand out.
AllBuffers == {BufferOf(t, AsUsize(t), f) : t \in Tiers, f \in BOOLEAN}

NoCall == [op |-> "none"]

\* BufferPool::new(small_count, medium_count, large_count)
PoolNew(counts) ==
    /\ queue = [t \in Tiers |-> [i \in 1..counts[t] |-> AsUsize(t)]]
    /\ queue_cap = counts
    /\ pool_allocated = counts
    /\ in_use = [t \in Tiers |-> 0]
    /\ held = EmptyBag
    /\ fresh_allocs = 0
    /\ pool_last = NoCall

\* The pool as it stands in specifications that do not exercise it.
PoolIdle == PoolNew([t \in Tiers |-> 0])

\* The state change of acquire(size) when the queue holds a region.
AcquirePop(size) ==
    /\ queue' = [queue EXCEPT ![size] = Tail(@)]
    /\ in_use' = [in_use EXCEPT ![size] = WrappingAdd(@, 1)]
    /\ held' = held (+) SetToBag({BufferOf(size, Head(queue[size]), FALSE)})

\* BufferPool::acquire(size)
Acquire(size) ==
    /\ BagCardinality(held) < MaxHeld \/ queue[size] = <<>>
    /\ IF queue[size] # <<>>
       THEN /\ AcquirePop(size)
            /\ pool_last' = [op |-> "acquire", size |-> size, res |-> "Some",
                             len |-> Head(queue[size]), qlen0 |-> Len(queue[size]),
                             in_use0 |-> in_use[size]]
       ELSE /\ UNCHANGED <<queue, in_use, held>>
            /\ pool_last' = [op |-> "acquire", size |-> size, res |-> "None",
                             len |-> 0, qlen0 |-> 0, in_use0 |-> in_use[size]]
    /\ UNCHANGED <<queue_cap, pool_allocated, fresh_allocs>>
    /\ UNCHANGED notPool

\* BufferPool::acquire_or_alloc(size)
AcquireOrAlloc(size) ==
    /\ BagCardinality(held) < MaxHeld
    /\ IF queue[size] # <<>>
       THEN /\ AcquirePop(size)
            /\ fresh_allocs' = fresh_allocs
            /\ pool_last' = [op |-> "acquire_or_alloc", size |-> size,
                             res |-> "Pooled", len |-> Head(queue[size]),
                             qlen0 |-> Len(queue[size]), in_use0 |-> in_use[size]]
       ELSE /\ fresh_allocs < MaxFresh
            /\ held' = held (+) SetToBag({BufferOf(size, AsUsize(size), TRUE)})
            /\ fresh_allocs' = fresh_allocs + 1
            /\ pool_last' = [op |-> "acquire_or_alloc", size |-> size,
                             res |-> "Fresh", len |-> AsUsize(size),
                             qlen0 |-> 0, in_use0 |-> in_use[size]]
            /\ UNCHANGED <<queue, in_use>>
    /\ UNCHANGED <<queue_cap, pool_allocated>>
    /\ UNCHANGED notPool

\* The in_use counter after return_buffer's fetch_sub(1).
InUseAfterReturn(x) == WrappingSub(x, 1)

\* impl Drop for Buffer -> BufferPoolInner::return_buffer(data, size)
DropBuffer(b) ==
    /\ BagIn(b, held)
    /\ held' = held (-) SetToBag({b})
    /\ in_use' = [in_use EXCEPT ![b.size] = InUseAfterReturn(@)]
    /\ queue' = [queue EXCEPT ![b.size] = QueuePush(@, queue_cap[b.size], b.len)]
    /\ pool_last' = [op |-> "drop", size |-> b.size,
                     res |-> IF b.fresh THEN "Fresh" ELSE "Pooled",
                     len |-> b.len, qlen0 |-> Len(queue[b.size]),
                     in_use0 |-> in_use[b.size]]
    /\ UNCHANGED <<queue_cap, pool_allocated, fresh_allocs>>
    /\ UNCHANGED notPool

\* ------------------------------------------------------------------------
\* Metrics (src/src/metrics/counters.rs)
\* ------------------------------------------------------------------------

MetricsNew ==
    [connections_total |-> 0, connections_active |-> 0, connections_failed |-> 0,
     bytes_received |-> 0, bytes_sent |-> 0,
     packets_received |-> 0, packets_sent |-> 0,
     streams_opened |-> 0, streams_closed |-> 0,
     datagrams_received |-> 0, datagrams_sent |-> 0,
     errors_total |-> 0, timeouts_total |-> 0]

\* Metrics::bytes_rx(count)
BytesRx(m, count) ==
    [m EXCEPT !.bytes_received = @ + count, !.packets_received = @ + 1]

\* Metrics::bytes_tx(count)
BytesTx(m, count) ==
    [m EXCEPT !.bytes_sent = @ + count, !.packets_sent = @ + 1]

\* ------------------------------------------------------------------------
\* Routing policy (src/src/router/policy.rs)
\* ------------------------------------------------------------------------

Allow == [kind |-> "Allow"]

Deny(reason) == [kind |-> "Deny", reason |-> reason]

Decide_PortsFirst(policy, host, port) ==
    IF port \in policy.blocked_ports THEN Deny("Port is blocked")
    ELSE IF host \in policy.blocked_hosts THEN Deny("Host is blocked")
    ELSE IF policy.allowed_ports # {} /\ port \notin policy.allowed_ports
         THEN Deny("Port not in allowed list")
    ELSE IF policy.default_allow THEN Allow
    ELSE Deny("Default deny policy")

\* RoutingPolicy::decide
Decide(policy, host, port) ==
    IF host \in policy.blocked_hosts THEN Deny("Host is blocked")
    ELSE IF port \in policy.blocked_ports THEN Deny("Port is blocked")
    ELSE IF policy.allowed_ports # {} /\ port \notin policy.allowed_ports
         THEN Deny("Port not in allowed list")
    ELSE IF policy.default_allow THEN Allow
    ELSE Deny("Default deny policy")

\* RequestRouter::is_allowed
IsAllowed(policy, host, port) == Decide(policy, host, port).kind = "Allow"

\* ------------------------------------------------------------------------
\* StreamHandler::handle_stream and TcpProxy::proxy_stream
\* ------------------------------------------------------------------------

TCP_CONNECT == 1

STATUS_OK == 0

STATUS_ERROR == 255

\* Request types a client may send: 0x01 and one unknown type.
RequestTypes == {TCP_CONNECT, 2}

Hosts == {"blocked.test", "example.invalid"}

Ports == {25, 443}

\* The routing policies the deployment may be configured with.
Policies ==
    [default_allow : BOOLEAN,
     blocked_hosts : {{}, {"blocked.test"}},
     blocked_ports : {{}, {25}},
     allowed_ports : {{}, {443}}]

\* format!("{}:{}", host, port)
Target(host, port) == <<host, port>>

\* A stream as accepted by accept_bi, before its handler has read anything.
\* request_type/host/port are what the client sends, policy is the routing
\* policy in force, target_up tells whether a TCP connect to the target
\* succeeds.
StreamNew(request_type, host, port, policy, target_up) ==
    [pc |-> "read_header",
     request_type |-> request_type, host |-> host, port |-> port,
     policy |-> policy, target_up |-> target_up,
     sent |-> <<>>,            \* bytes written to the QUIC send stream
     dials |-> <<>>,           \* targets TcpStream::connect was called with
     policy_consults |-> 0,    \* calls of RequestRouter::route / is_allowed
     connected |-> FALSE,      \* the TCP connection to the target is up
     c2t |-> "idle",           \* client_to_target direction of the pump
     t2c |-> "idle",           \* target_to_client direction of the pump
     rx_chunks |-> 0, tx_chunks |-> 0,
     finished |-> FALSE,       \* quic_send.finish() was called
     tcp_shutdown |-> FALSE,   \* the TCP write half was shut down
     quic_closed |-> FALSE,    \* quic_recv.read reported EOF or an error
     result |-> "running"]

\* No stream being handled.
StreamIdle == [pc |-> "idle"]

\* The counters as they stand in the specifications of the slab, which has
\* no counter.
MetricsIdle == <<>>

\* recv.read_exact of the header, the host length and the host, and
\* String::from_utf8: any of them may fail, which ends the handler with Err.
ReadRequest ==
    /\ stream.pc = "read_header"
    /\ \E ok \in BOOLEAN :
          stream' = IF ok THEN [stream EXCEPT !.pc = "dispatch"]
                    ELSE [stream EXCEPT !.pc = "done", !.result = "Err"]
    /\ UNCHANGED <<metrics, notStream>>

\* The status byte handle_stream writes for a TCP connect request.
ConnectAck == STATUS_OK

\* match request_type { 0x01 => send.write_all(&[0x00]) ... }: the
\* acknowledgment is written before the proxy is started; a failed write
\* ends the handler with Err.
DispatchTcpConnect ==
    /\ stream.pc = "dispatch"
    /\ stream.request_type = TCP_CONNECT
    /\ \E ok \in BOOLEAN :
          stream' = IF ok
                    THEN [stream EXCEPT !.pc = "connect",
                                        !.sent = Append(@, ConnectAck)]
                    ELSE [stream EXCEPT !.pc = "done", !.result = "Err"]
    /\ UNCHANGED <<metrics, notStream>>

\* match request_type { _ => send.write_all(&[0xFF]) }; Ok(()).
DispatchUnknown ==
    /\ stream.pc = "dispatch"
    /\ stream.request_type # TCP_CONNECT
    /\ \E ok \in BOOLEAN :
          stream' = IF ok
                    THEN [stream EXCEPT !.pc = "done", !.result = "Ok",
                                        !.sent = Append(@, STATUS_ERROR)]
                    ELSE [stream EXCEPT !.pc = "done", !.result = "Err"]
    /\ UNCHANGED <<metrics, notStream>>

\* TcpProxy::proxy_stream: TcpStream::connect(target).await with_context ?
ProxyConnect ==
    /\ stream.pc = "connect"
    /\ LET dialled == [stream EXCEPT
                         !.dials = Append(@, Target(stream.host, stream.port))]
       IN  stream' = IF stream.target_up
                     THEN [dialled EXCEPT !.pc = "pump", !.connected = TRUE,
                                          !.c2t = "running", !.t2c = "running"]
                     ELSE [dialled EXCEPT !.pc = "done", !.result = "Err"]
    /\ UNCHANGED <<metrics, notStream>>

\* proxy_userspace, client_to_target: quic_recv.read gave n > 0 bytes; they
\* are written to the target (a failed write breaks the loop).
PumpClientToTarget ==
    /\ stream.pc = "pump"
    /\ stream.c2t = "running"
    /\ stream.rx_chunks < MaxChunks
    /\ \E ok \in BOOLEAN :
          IF ok
          THEN /\ stream' = [stream EXCEPT !.rx_chunks = @ + 1]
               /\ metrics' = BytesRx(metrics, 1)
          ELSE /\ stream' = [stream EXCEPT !.c2t = "done"]
               /\ metrics' = metrics
    /\ UNCHANGED notStream

\* proxy_userspace, client_to_target: EOF, zero bytes or a read error.
ClientToTargetEnd ==
    /\ stream.pc = "pump"
    /\ stream.c2t = "running"
    /\ stream' = [stream EXCEPT !.c2t = "done", !.quic_closed = TRUE]
    /\ UNCHANGED <<metrics, notStream>>

\* proxy_userspace, target_to_client: tcp_read.read gave n > 0 bytes; they
\* are written to the QUIC send stream (a failed write breaks the loop and
\* finish() is called).
PumpTargetToClient ==
    /\ stream.pc = "pump"
    /\ stream.t2c = "running"
    /\ stream.tx_chunks < MaxChunks
    /\ \E ok \in BOOLEAN :
          IF ok
          THEN /\ stream' = [stream EXCEPT !.tx_chunks = @ + 1,
                                           !.sent = Append(@, "data")]
               /\ metrics' = BytesTx(metrics, 1)
          ELSE /\ stream' = [stream EXCEPT !.t2c = "done", !.finished = TRUE]
               /\ metrics' = metrics
    /\ UNCHANGED notStream

\* proxy_userspace, target_to_client: EOF or a read error, then
\* quic_send.finish().
TargetToClientEnd ==
    /\ stream.pc = "pump"
    /\ stream.t2c = "running"
    /\ stream' = [stream EXCEPT !.t2c = "done", !.finished = TRUE]
    /\ UNCHANGED <<metrics, notStream>>

\* tokio::join!(client_to_target, target_to_client) completes; Ok(()).
\* The halves of the TCP stream are dropped when proxy_userspace returns.
PumpJoin ==
    /\ stream.pc = "pump"
    /\ stream.c2t = "done"
    /\ stream.t2c = "done"
    /\ stream' = [stream EXCEPT !.pc = "done", !.result = "Ok",
                                !.connected = FALSE, !.tcp_shutdown = TRUE]
    /\ UNCHANGED <<metrics, notStream>>

\* ------------------------------------------------------------------------
\* ConnectionSlab as called by the connection manager: one call at a time
\* ------------------------------------------------------------------------

\* insert's scan from word w on a quiescent slab: the index it claims, or
\* None when no word has a free bit below capacity.
RECURSIVE InsertScan(_)
InsertScan(w) ==
    IF w >= NumWords(capacity)
    THEN None
    ELSE IF Word(w) = {}
         THEN InsertScan(w + 1)
         ELSE LET slot_idx == w * WordBits + TrailingZeros(Word(w))
              IN  IF slot_idx >= capacity
                  THEN InsertScan(w + 1)
                  ELSE Some(slot_idx)

\* The slab after insert(value) claimed slot_idx.
SlabInserted(slot_idx, value) ==
    /\ free_bitset' = [free_bitset EXCEPT ![(slot_idx \div WordBits) + 1] =
                          ClearBit(@, slot_idx % WordBits)]
    /\ slots' = [slots EXCEPT ![slot_idx] = Some(value)]
    /\ allocated' = allocated + 1

\* The slab after remove(handle) found the slot occupied.
SlabRemoved_KeepsValue(slot_idx) ==
    /\ slots' = slots
    /\ free_bitset' = [free_bitset EXCEPT ![(slot_idx \div WordBits) + 1] =
                          SetBit(@, slot_idx % WordBits)]
    /\ allocated' = AllocatedAfterRemove(allocated)

SlabRemoved(slot_idx) ==
    /\ slots' = [slots EXCEPT ![slot_idx] = None]
    /\ free_bitset' = [free_bitset EXCEPT ![(slot_idx \div WordBits) + 1] =
                          SetBit(@, slot_idx % WordBits)]
    /\ allocated' = AllocatedAfterRemove(allocated)

\* ConnectionSlab::get / get_mut
SlabGet(slot_idx) ==
    IF slot_idx >= capacity THEN None ELSE slots[slot_idx]

\* ConnectionSlab::len
SlabLen == allocated

\* ConnectionSlab::is_full
SlabIsFull == allocated >= capacity

\* ------------------------------------------------------------------------
\* SlabCallSpec: insert and remove called one after the other
\* ------------------------------------------------------------------------

\* Values inserted by SlabCallSpec.
CallValues == 1..(NumValues + 1)

\* insert(value) as a whole, on a quiescent slab; the call and the handle it
\* returned are appended to the log.
CallInsert(value) ==
    /\ Len(calls) < MaxCalls
    /\ LET handle == InsertScan(0)
       IN  /\ IF IsSome(handle)
              THEN SlabInserted(Unwrap(handle), value)
              ELSE UNCHANGED <<free_bitset, slots, allocated>>
           /\ calls' = Append(calls, [op |-> "insert", idx |-> 0,
                                      value |-> value, res |-> handle])
    /\ UNCHANGED <<capacity, slot_lock, procVars, mcall, issued, poolVars,
                   metrics, stream, serverVars, clientVars, auxVars>>

\* remove(SlabHandle(idx)) as a whole; the call and the value it returned
\* are appended to the log.
CallRemove(idx) ==
    /\ Len(calls) < MaxCalls
    /\ LET taken == IF idx >= capacity THEN None ELSE slots[idx]
       IN  /\ IF IsSome(taken)
              THEN SlabRemoved(idx)
              ELSE UNCHANGED <<free_bitset, slots, allocated>>
           /\ calls' = Append(calls, [op |-> "remove", idx |-> idx,
                                      value |-> 0, res |-> taken])
    /\ UNCHANGED <<capacity, slot_lock, procVars, mcall, issued, poolVars,
                   metrics, stream, serverVars, clientVars, auxVars>>

\* ------------------------------------------------------------------------
\* ConnectionState (src/src/connection/state.rs)
\* ------------------------------------------------------------------------

Phases == <<"Connecting", "Active", "Draining", "Closed">>

\* Position of a phase in the declaration order of ConnectionPhase.
PhaseRank(phase) == CHOOSE k \in DOMAIN Phases : Phases[k] = phase

\* ConnectionState::new.  The fields no operation of the server reads
\* (connected_at, active_streams, active_udp_flows) are left out.
ConnectionStateNew(id, client_addr) ==
    [id |-> id, client_addr |-> client_addr, phase |-> "Connecting",
     last_active |-> now, bytes_rx |-> 0, bytes_tx |-> 0]

\* ConnectionState::touch
Touch(state) == [state EXCEPT !.last_active = now]

\* ConnectionState::set_active
SetActive(state) == Touch([state EXCEPT !.phase = "Active"])

\* ConnectionState::record_rx; the byte counts explored stay far below the
\* 2^64 - 1 at which saturating_add stops.
RecordRx(state, bytes) == Touch([state EXCEPT !.bytes_rx = @ + bytes])

\* ConnectionState::record_tx
RecordTx(state, bytes) == Touch([state EXCEPT !.bytes_tx = @ + bytes])

\* ConnectionState::set_draining
SetDraining_Kept(state) == state

SetDraining(state) == [state EXCEPT !.phase = "Draining"]

\* ConnectionState::idle_duration
IdleDuration(state) == now - state.last_active

\* ------------------------------------------------------------------------
\* Metrics: connection and stream counters
\* ------------------------------------------------------------------------

\* Metrics::connection_opened
ConnectionOpened(m) ==
    [m EXCEPT !.connections_total = @ + 1,
              !.connections_active = (@ + 1) % UsizeModulus]

\* Metrics::connection_closed
ConnectionClosed(m) == [m EXCEPT !.connections_active = WrappingSub(@, 1)]

\* Metrics::connection_failed
ConnectionFailed_Uncounted(m) == m

ConnectionFailed(m) == [m EXCEPT !.connections_failed = @ + 1]

\* Metrics::stream_opened
StreamOpened(m) == [m EXCEPT !.streams_opened = @ + 1]

\* Metrics::stream_closed
StreamClosed(m) == [m EXCEPT !.streams_closed = @ + 1]

\* Metrics::datagram_rx
DatagramRx(m) == [m EXCEPT !.datagrams_received = @ + 1]

\* Metrics::datagram_tx
DatagramTx(m) == [m EXCEPT !.datagrams_sent = @ + 1]

\* ------------------------------------------------------------------------
\* ConnectionManager (src/src/connection/manager.rs)
\* ------------------------------------------------------------------------

\* ConnectionManager::new
ManagerNew(max_connections) ==
    /\ SlabNew(max_connections)
    /\ id_to_handle = <<>>
    /\ next_id = 1

\* The manager of specifications that do not run the server.
ManagerIdle ==
    /\ id_to_handle = <<>>
    /\ next_id = 1

\* DashMap::remove
MapRemove_Keeps(map, id) == map

MapRemove(map, id) == [k \in DOMAIN map \ {id} |-> map[k]]

\* unregister(id): the map entry goes first; the slab slot and the metric
\* follow only when the entry existed and its slot was occupied.
Unregister(id) ==
    IF id \in DOMAIN id_to_handle
    THEN /\ id_to_handle' = MapRemove(id_to_handle, id)
         /\ IF IsSome(SlabGet(id_to_handle[id]))
            THEN /\ SlabRemoved(id_to_handle[id])
                 /\ metrics' = ConnectionClosed(metrics)
            ELSE UNCHANGED <<free_bitset, slots, allocated, metrics>>
    ELSE UNCHANGED <<id_to_handle, free_bitset, slots, allocated, metrics>>

\* connection_count()
ConnectionCount == SlabLen

\* is_full()
IsFull == SlabIsFull

\* The ids cleanup_idle collects: idle_duration() > idle_timeout.
IdleIds ==
    {id \in DOMAIN id_to_handle :
        /\ IsSome(SlabGet(id_to_handle[id]))
        /\ IdleDuration(Unwrap(SlabGet(id_to_handle[id]))) > IdleTimeout}

\* ------------------------------------------------------------------------
\* Server: clients, accept loop and per-connection tasks
\* (src/src/server/listener.rs, src/src/server/acceptor.rs)
\* ------------------------------------------------------------------------

Clients == 1..NumClients

\* How a QUIC connection ended, as its client sees it.
ApplicationClose(code, reason) ==
    [kind |-> "application", code |-> code, reason |-> reason]

\* The endpoint's answer to an Incoming that is dropped unaccepted.
Refused == [kind |-> "refused", code |-> 0, reason |-> ""]

\* The client went away, or the transport gave up on it.
ConnectionLost == [kind |-> "lost", code |-> 0, reason |-> ""]

\* A client that has not been accepted yet.  pc is the position of its
\* connection task, quic the state of its QUIC connection, close how that
\* connection ended, shutdown_rx the task's broadcast receiver, streams the
\* number of running stream handlers.  gap is a history field: the time
\* since bytes were last relayed on the connection (since it was registered
\* or activated, before the first bytes), frozen at IdleTimeout once an
\* interval that long has passed without any.  turn is the parity of the
\* turns of the dispatch loop that ended in a datagram receive error.
ClientNew ==
    [pc |-> "incoming", conn_id |-> None, quic |-> "incoming", close |-> None,
     shutdown_rx |-> "none", streams |-> 0, gap |-> 0, datagrams |-> 0,
     failed |-> 0, turn |-> 0]

\* Connection::close and the closes made by the endpoint: the first close
\* of a connection is the one its client sees.
CloseWith(c, how) ==
    IF conn[c].quic = "closed"
    THEN conn[c]
    ELSE [conn[c] EXCEPT !.quic = "closed", !.close = Some(how)]

\* The history field after the connection showed activity.
Refreshed(gap) == IF gap < IdleTimeout THEN 0 ELSE IdleTimeout

\* Server::run, one turn of the accept loop: endpoint.accept() yields the
\* Incoming of client c; it is dropped when the manager is full, else a
\* ConnectionHandler task is spawned for it.
ListenerAccept(c) ==
    /\ srv.pc = "running"
    /\ conn[c].pc = "incoming"
    /\ IF IsFull
       THEN conn' = [conn EXCEPT ![c] =
                        [CloseWith(c, Refused) EXCEPT !.pc = "dropped"]]
       ELSE conn' = [conn EXCEPT ![c].pc = "handshake"]
    /\ UNCHANGED <<slabVars, id_to_handle, next_id, srv, cleanup, now,
                   metrics, notServer>>

\* ConnectionHandler::handle: incoming.await returns Ok(connection).
HandshakeOk(c) ==
    /\ conn[c].pc = "handshake"
    /\ conn[c].quic = "incoming"
    /\ srv.pc # "stopped"
    /\ conn' = [conn EXCEPT ![c].pc = "register", ![c].quic = "open"]
    /\ UNCHANGED <<slabVars, id_to_handle, next_id, srv, cleanup, now,
                   metrics, notServer>>

\* ConnectionHandler::handle: incoming.await returns Err.
HandshakeErr(c) ==
    /\ conn[c].pc = "handshake"
    /\ conn' = [conn EXCEPT ![c] =
                   [CloseWith(c, ConnectionLost) EXCEPT !.pc = "failed"]]
    /\ metrics' = ConnectionFailed(metrics)
    /\ UNCHANGED <<slabVars, id_to_handle, next_id, srv, cleanup, now,
                   notServer>>

\* ConnectionHandler::handle: conn_manager.register(client_addr), and the
\* close with code 1 when it returns None.
Register(c) ==
    /\ conn[c].pc = "register"
    /\ next_id' = next_id + 1
    /\ LET id == next_id
           handle == InsertScan(0)
       IN  IF IsSome(handle)
           THEN /\ SlabInserted(Unwrap(handle), ConnectionStateNew(id, c))
                /\ id_to_handle' = id_to_handle @@ (id :> Unwrap(handle))
                /\ metrics' = ConnectionOpened(metrics)
                /\ conn' = [conn EXCEPT ![c].pc = "activate",
                                        ![c].conn_id = Some(id),
                                        ![c].gap = 0]
           ELSE /\ conn' = [conn EXCEPT ![c] =
                              [CloseWith(c, ApplicationClose(1, "server at capacity"))
                                  EXCEPT !.pc = "rejected"]]
                /\ UNCHANGED <<free_bitset, slots, allocated, id_to_handle,
                               metrics>>
    /\ UNCHANGED <<capacity, slot_lock, srv, cleanup, now, notServer>>

\* ConnectionHandler::handle: conn_manager.activate(conn_id).
Activate(c) ==
    /\ conn[c].pc = "activate"
    /\ LET id == Unwrap(conn[c].conn_id)
       IN  IF id \in DOMAIN id_to_handle /\ IsSome(SlabGet(id_to_handle[id]))
           THEN slots' = [slots EXCEPT ![id_to_handle[id]] =
                             Some(SetActive(Unwrap(@)))]
           ELSE slots' = slots
    /\ conn' = [conn EXCEPT ![c].pc = "subscribe",
                            ![c].gap = Refreshed(@)]
    /\ UNCHANGED <<capacity, free_bitset, slot_lock, allocated, id_to_handle,
                   next_id, srv, cleanup, now, metrics, notServer>>

\* ConnectionHandler::handle: conn_manager.subscribe_shutdown().  The new
\* receiver sees only what is sent after this call.
SubscribeShutdown(c) ==
    /\ conn[c].pc = "subscribe"
    /\ conn' = [conn EXCEPT ![c].pc = "select", ![c].shutdown_rx = "empty"]
    /\ UNCHANGED <<slabVars, id_to_handle, next_id, srv, cleanup, now,
                   metrics, notServer>>

\* handle_connection: accept_bi() yields a stream; METRICS.stream_opened()
\* and a StreamHandler task is spawned.
AcceptBi(c) ==
    /\ conn[c].pc = "select"
    /\ conn[c].quic = "open"
    /\ metrics.streams_opened < MaxStreams
    /\ metrics' = StreamOpened(metrics)
    /\ conn' = [conn EXCEPT ![c].streams = @ + 1]
    /\ UNCHANGED <<slabVars, id_to_handle, next_id, srv, cleanup, now,
                   notServer>>

\* A stream handler of connection c relays one chunk, from the client (rx)
\* or to it (proxy_userspace): the bytes are tallied in METRICS only.
StreamRelay(c, rx) ==
    /\ conn[c].streams > 0
    /\ conn[c].quic = "open"
    /\ metrics.packets_received + metrics.packets_sent < MaxRelays
    /\ metrics' = IF rx THEN BytesRx(metrics, 1) ELSE BytesTx(metrics, 1)
    /\ conn' = [conn EXCEPT ![c].gap = Refreshed(@)]
    /\ UNCHANGED <<slabVars, id_to_handle, next_id, srv, cleanup, now,
                   notServer>>

\* A stream handler of connection c returns; METRICS.stream_closed().
StreamHandlerEnd(c) ==
    /\ conn[c].streams > 0
    /\ metrics' = StreamClosed(metrics)
    /\ conn' = [conn EXCEPT ![c].streams = @ - 1]
    /\ UNCHANGED <<slabVars, id_to_handle, next_id, srv, cleanup, now,
                   notServer>>

\* The connection task's record after a handler task it spawned failed:
\* the spawned task logs the error (debug!) and ends; failed counts the
\* handler failures of the connection.
AfterHandlerFailure_Break(task) ==
    [task EXCEPT !.failed = @ + 1, !.pc = "unregister"]

AfterHandlerFailure(task) == [task EXCEPT !.failed = @ + 1]

\* A stream handler of connection c returns Err (header read error,
\* request not UTF-8, dial failure, write error): the error is logged;
\* METRICS.stream_closed().
StreamHandlerErr_Unclosed(c) ==
    /\ conn[c].streams > 0
    /\ conn' = [conn EXCEPT ![c] =
                   [AfterHandlerFailure(conn[c]) EXCEPT !.streams = @ - 1]]
    /\ UNCHANGED <<slabVars, id_to_handle, next_id, srv, cleanup, now,
                   metrics, notServer>>

StreamHandlerErr(c) ==
    /\ conn[c].streams > 0
    /\ metrics' = StreamClosed(metrics)
    /\ conn' = [conn EXCEPT ![c] =
                   [AfterHandlerFailure(conn[c]) EXCEPT !.streams = @ - 1]]
    /\ UNCHANGED <<slabVars, id_to_handle, next_id, srv, cleanup, now,
                   notServer>>

\* handle_connection: read_datagram() yields a datagram;
\* METRICS.datagram_rx() and a DatagramHandler task is spawned.
ReadDatagram(c) ==
    /\ conn[c].pc = "select"
    /\ conn[c].quic = "open"
    /\ metrics.datagrams_received < MaxDatagrams
    /\ metrics' = DatagramRx(metrics)
    /\ conn' = [conn EXCEPT ![c].datagrams = @ + 1]
    /\ UNCHANGED <<slabVars, id_to_handle, next_id, srv, cleanup, now,
                   notServer>>

\* A datagram handler of connection c relayed its packet: the response is
\* handed to send_datagram, whose result is ignored; METRICS.datagram_tx().
DatagramRelayed(c) ==
    /\ conn[c].datagrams > 0
    /\ metrics' = DatagramTx(metrics)
    /\ conn' = [conn EXCEPT ![c].datagrams = @ - 1]
    /\ UNCHANGED <<slabVars, id_to_handle, next_id, srv, cleanup, now,
                   notServer>>

\* A datagram handler of connection c ends without relaying: Ok(()) for a
\* datagram that is too short or truncated and for a relay error or
\* timeout, Err (logged) for a host that is not UTF-8.
DatagramHandlerFail(c) ==
    /\ conn[c].datagrams > 0
    /\ conn' = [conn EXCEPT ![c] =
                   [AfterHandlerFailure(conn[c]) EXCEPT !.datagrams = @ - 1]]
    /\ UNCHANGED <<slabVars, id_to_handle, next_id, srv, cleanup, now,
                   metrics, notServer>>

\* The client closes its connection, or the transport loses it.
ClientGone(c) ==
    /\ conn[c].quic = "open"
    /\ conn' = [conn EXCEPT ![c] = CloseWith(c, ConnectionLost)]
    /\ UNCHANGED <<slabVars, id_to_handle, next_id, srv, cleanup, now,
                   metrics, notServer>>

\* handle_connection: the accept_bi() branch is taken on a closed
\* connection and yields Err; break.
LoopBreak_SkipsUnregister(c) ==
    /\ conn[c].pc = "select"
    /\ conn[c].quic = "closed"
    /\ conn' = [conn EXCEPT ![c].pc = "done"]
    /\ UNCHANGED <<slabVars, id_to_handle, next_id, srv, cleanup, now,
                   metrics, notServer>>

LoopBreak(c) ==
    /\ conn[c].pc = "select"
    /\ conn[c].quic = "closed"
    /\ conn' = [conn EXCEPT ![c].pc = "unregister"]
    /\ UNCHANGED <<slabVars, id_to_handle, next_id, srv, cleanup, now,
                   metrics, notServer>>

\* The connection task's record after read_datagram() returned Err: break
\* for ApplicationClosed, another turn of the loop for any other error.
AfterDatagramError_Break(task, application_closed) ==
    [task EXCEPT !.pc = "unregister",
                 !.turn = IF application_closed THEN @ ELSE 1 - @]

AfterDatagramError(task, application_closed) ==
    IF application_closed
    THEN [task EXCEPT !.pc = "unregister"]
    ELSE [task EXCEPT !.turn = 1 - @]

\* handle_connection: the read_datagram() branch is taken on a closed
\* connection and yields Err, ApplicationClosed or another error.
ReadDatagramErr(c) ==
    /\ conn[c].pc = "select"
    /\ conn[c].quic = "closed"
    /\ \E application_closed \in BOOLEAN :
          conn' = [conn EXCEPT ![c] =
                      AfterDatagramError(conn[c], application_closed)]
    /\ UNCHANGED <<slabVars, id_to_handle, next_id, srv, cleanup, now,
                   metrics, notServer>>

\* handle_connection: shutdown_rx.recv() returns; close(0, "server
\* shutdown"); break.
ShutdownRecv(c) ==
    /\ conn[c].pc = "select"
    /\ conn[c].shutdown_rx = "ready"
    /\ conn' = [conn EXCEPT ![c] =
                   [CloseWith(c, ApplicationClose(0, "server shutdown"))
                       EXCEPT !.pc = "unregister", !.shutdown_rx = "taken"]]
    /\ UNCHANGED <<slabVars, id_to_handle, next_id, srv, cleanup, now,
                   metrics, notServer>>

\* ConnectionHandler::handle: conn_manager.unregister(conn_id); return.
TaskUnregister(c) ==
    /\ conn[c].pc = "unregister"
    /\ Unregister(Unwrap(conn[c].conn_id))
    /\ conn' = [conn EXCEPT ![c].pc = "done"]
    /\ UNCHANGED <<capacity, slot_lock, next_id, srv, cleanup, now, notServer>>

\* ------------------------------------------------------------------------
\* Server::shutdown (src/src/server/listener.rs, src/src/main.rs)
\* ------------------------------------------------------------------------

ServerNew == [pc |-> "running", shutdown_sent |-> FALSE, drain_start |-> 0]

\* main: the shutdown signal wins the select, which drops the accept loop;
\* Server::shutdown then sends on the watch channel and calls
\* signal_shutdown(): every receiver subscribed by now gets the message.
SignalShutdown ==
    /\ srv.pc = "running"
    /\ conn' = [c \in Clients |->
                   IF conn[c].shutdown_rx = "empty"
                   THEN [conn[c] EXCEPT !.shutdown_rx = "ready"]
                   ELSE conn[c]]
    /\ srv' = [srv EXCEPT !.pc = "drain", !.shutdown_sent = TRUE]
    /\ UNCHANGED <<slabVars, id_to_handle, next_id, cleanup, now, metrics,
                   notServer>>

\* drain: the pass that marks every registered connection as draining.
DrainMark ==
    /\ srv.pc = "drain"
    /\ slots' = [i \in DOMAIN slots |->
                    IF /\ \E id \in DOMAIN id_to_handle : id_to_handle[id] = i
                       /\ IsSome(SlabGet(i))
                    THEN Some(SetDraining(Unwrap(slots[i])))
                    ELSE slots[i]]
    /\ srv' = [srv EXCEPT !.pc = "drain_wait", !.drain_start = now]
    /\ UNCHANGED <<capacity, free_bitset, slot_lock, allocated, id_to_handle,
                   next_id, conn, cleanup, now, metrics, notServer>>

\* drain: the polling loop ends when no connection is left or the deadline
\* has passed.
DrainWaitEnd ==
    /\ srv.pc = "drain_wait"
    /\ ~(ConnectionCount > 0 /\ now - srv.drain_start < DrainTimeout)
    /\ srv' = [srv EXCEPT !.pc = "close", !.drain_start = 0]
    /\ UNCHANGED <<slabVars, id_to_handle, next_id, conn, cleanup, now,
                   metrics, notServer>>

\* endpoint.close(0, "server shutdown"): every connection of the endpoint
\* that is still open is closed.
EndpointClose ==
    /\ srv.pc = "close"
    /\ conn' = [c \in Clients |->
                   IF conn[c].quic = "open"
                   THEN CloseWith(c, ApplicationClose(0, "server shutdown"))
                   ELSE conn[c]]
    /\ srv' = [srv EXCEPT !.pc = "stopped"]
    /\ UNCHANGED <<slabVars, id_to_handle, next_id, cleanup, now, metrics,
                   notServer>>

\* ------------------------------------------------------------------------
\* The idle-cleanup task and the clock
\* ------------------------------------------------------------------------

\* The cleanup task outside cleanup_idle: to_remove are the ids collected
\* and not yet unregistered, handle the slab handle of the unregister call
\* that has removed its map entry and not yet its slab slot.
CleanupNew == [pc |-> "idle", to_remove |-> {}, handle |-> None]

\* cleanup_idle: the collection pass.
CleanupCollect ==
    /\ cleanup.pc = "idle"
    /\ IdleIds # {}
    /\ cleanup' = [pc |-> "remove", to_remove |-> IdleIds, handle |-> None]
    /\ UNCHANGED <<slabVars, id_to_handle, next_id, conn, srv, now, metrics,
                   notServer>>

\* The cleanup task after one unregister call of the removal loop has
\* returned: cleanup_idle returns after the last one.
AfterCleanupUnregister(task) ==
    IF task.to_remove = {} THEN CleanupNew ELSE [task EXCEPT !.handle = None]

\* cleanup_idle: one turn of the removal loop, unregister(id), up to its
\* self.id_to_handle.remove(&id); the call returns when there is no entry.
CleanupRemove_Peek(id) ==
    /\ cleanup.pc = "remove"
    /\ cleanup.handle = None
    /\ id \in cleanup.to_remove
    /\ LET rest == [cleanup EXCEPT !.to_remove = @ \ {id}]
       IN  IF id \in DOMAIN id_to_handle
           THEN /\ id_to_handle' = id_to_handle
                /\ cleanup' = [rest EXCEPT !.handle = Some(id_to_handle[id])]
           ELSE /\ id_to_handle' = id_to_handle
                /\ cleanup' = AfterCleanupUnregister(rest)
    /\ UNCHANGED <<slabVars, next_id, conn, srv, now, metrics, notServer>>

CleanupRemove(id) ==
    /\ cleanup.pc = "remove"
    /\ cleanup.handle = None
    /\ id \in cleanup.to_remove
    /\ LET rest == [cleanup EXCEPT !.to_remove = @ \ {id}]
       IN  IF id \in DOMAIN id_to_handle
           THEN /\ id_to_handle' = MapRemove(id_to_handle, id)
                /\ cleanup' = [rest EXCEPT !.handle = Some(id_to_handle[id])]
           ELSE /\ id_to_handle' = id_to_handle
                /\ cleanup' = AfterCleanupUnregister(rest)
    /\ UNCHANGED <<slabVars, next_id, conn, srv, now, metrics, notServer>>

\* cleanup_idle: the rest of that unregister(id), self.connections.remove(
\* handle) and METRICS.connection_closed() when it returned the state.
CleanupRemoveSlab ==
    /\ cleanup.pc = "remove"
    /\ cleanup.handle # None
    /\ LET handle == Unwrap(cleanup.handle)
       IN  IF IsSome(SlabGet(handle))
           THEN /\ SlabRemoved(handle)
                /\ metrics' = ConnectionClosed(metrics)
           ELSE UNCHANGED <<free_bitset, slots, allocated, metrics>>
    /\ cleanup' = AfterCleanupUnregister(cleanup)
    /\ UNCHANGED <<capacity, slot_lock, id_to_handle, next_id, conn, srv, now,
                   notServer>>

\* record_traffic(id, rx, tx), called by a task that holds id, for a
\* connection that is registered.
RecordTraffic(id, rx, tx) ==
    /\ id \in DOMAIN id_to_handle
    /\ IsSome(SlabGet(id_to_handle[id]))
    /\ rx + tx > 0
    /\ metrics.packets_received + metrics.packets_sent < MaxRelays
    /\ LET state == Unwrap(SlabGet(id_to_handle[id]))
           after_rx == IF rx > 0 THEN RecordRx(state, rx) ELSE state
           after_tx == IF tx > 0 THEN RecordTx(after_rx, tx) ELSE after_rx
           m_rx == IF rx > 0 THEN BytesRx(metrics, rx) ELSE metrics
       IN  /\ slots' = [slots EXCEPT ![id_to_handle[id]] = Some(after_tx)]
           /\ metrics' = IF tx > 0 THEN BytesTx(m_rx, tx) ELSE m_rx
    /\ UNCHANGED <<capacity, free_bitset, slot_lock, allocated, id_to_handle,
                   next_id, conn, srv, cleanup, now, notServer>>

\* Time passes.
Tick ==
    /\ now < MaxTime
    /\ now' = now + 1
    /\ conn' = [c \in Clients |->
                   IF IsSome(conn[c].conn_id) /\ conn[c].pc # "done"
                   THEN [conn[c] EXCEPT !.gap = Min({@ + 1, IdleTimeout})]
                   ELSE conn[c]]
    /\ UNCHANGED <<slabVars, id_to_handle, next_id, srv, cleanup, metrics,
                   notServer>>

\* The server of specifications that do not run it: no client has shown up.
ServerIdle ==
    /\ ManagerIdle
    /\ conn = <<>>
    /\ srv = ServerNew
    /\ cleanup = CleanupNew
    /\ now = 0

\* ------------------------------------------------------------------------
\* Callers and clients as they stand in specifications that do not run them
\* ------------------------------------------------------------------------

Callers == 1..NumCallers

\* A task that is not inside a manager call.
CallerNew == [pc |-> "idle", id |-> 0, handle |-> None]

CallersIdle ==
    /\ calls = <<>>
    /\ mcall = [p \in Callers |-> CallerNew]
    /\ issued = <<>>

\* No request on its way through the codecs.
CodecIdle == [pc |-> "idle"]

\* No CONNECT being handled.
HttpIdle == [pc |-> "idle"]

ClientsIdle ==
    /\ codec = CodecIdle
    /\ http = HttpIdle

\* No request put to the routing policy.
RouteIdle == [pc |-> "idle"]

\* No snapshot being taken.
SnapsIdle == [pc |-> "idle"]

\* No UDP socket pool in use.
SocketsIdle == [pc |-> "idle"]

\* The components exercised on their own, in specifications that do not
\* exercise them.
AuxIdle ==
    /\ route = RouteIdle
    /\ snaps = SnapsIdle
    /\ sockets = SocketsIdle

\* ------------------------------------------------------------------------
\* ManagerSpec: tasks calling register, activate and unregister concurrently
\* (src/src/connection/manager.rs), one action per step of a call
\* ------------------------------------------------------------------------

\* next_id.fetch_add(1, Relaxed): the value left in next_id.
NextIdAfter_Same(n) == n

NextIdAfter(n) == n + 1

\* The entry of the log of minted ids for the call that minted id.
Minted(id) == [id |-> id, returned |-> FALSE, handle |-> None]

\* The log after the register call that minted id returned; handle is the
\* slab handle it got, None when the slab was full.
Returned(id, handle) ==
    [i \in DOMAIN issued |->
        IF issued[i].id = id /\ ~issued[i].returned
        THEN [issued[i] EXCEPT !.returned = TRUE, !.handle = handle]
        ELSE issued[i]]

\* register: let id = ConnectionId::from_raw(next_id.fetch_add(1, Relaxed)).
RegisterMint(p) ==
    /\ mcall[p].pc = "idle"
    /\ Len(issued) < MaxRegisters
    /\ next_id' = NextIdAfter(next_id)
    /\ issued' = Append(issued, Minted(next_id))
    /\ mcall' = [mcall EXCEPT ![p] = [pc |-> "reg_insert", id |-> next_id,
                                      handle |-> None]]
    /\ UNCHANGED <<slabVars, id_to_handle, conn, srv, cleanup, now, metrics,
                   calls, procVars, poolVars, stream, clientVars, auxVars>>

\* register: let handle = self.connections.insert(state)?; a full slab
\* makes register return None.
RegisterSlabInsert(p) ==
    /\ mcall[p].pc = "reg_insert"
    /\ LET handle == InsertScan(0)
       IN  IF IsSome(handle)
           THEN /\ SlabInserted(Unwrap(handle),
                                ConnectionStateNew(mcall[p].id, p))
                /\ mcall' = [mcall EXCEPT ![p].pc = "reg_map",
                                          ![p].handle = handle]
                /\ issued' = issued
           ELSE /\ UNCHANGED <<free_bitset, slots, allocated>>
                /\ mcall' = [mcall EXCEPT ![p] = CallerNew]
                /\ issued' = Returned(mcall[p].id, None)
    /\ UNCHANGED <<capacity, slot_lock, id_to_handle, next_id, conn, srv,
                   cleanup, now, metrics, calls, procVars, poolVars, stream,
                   clientVars, auxVars>>

\* register: self.id_to_handle.insert(id, handle).
RegisterMapInsert(p) ==
    /\ mcall[p].pc = "reg_map"
    /\ id_to_handle' = id_to_handle @@ (mcall[p].id :> Unwrap(mcall[p].handle))
    /\ mcall' = [mcall EXCEPT ![p].pc = "reg_opened"]
    /\ UNCHANGED <<slabVars, next_id, conn, srv, cleanup, now, metrics, calls,
                   issued, procVars, poolVars, stream, clientVars, auxVars>>

\* register: METRICS.connection_opened(); Some(id).
RegisterOpened(p) ==
    /\ mcall[p].pc = "reg_opened"
    /\ metrics' = ConnectionOpened(metrics)
    /\ mcall' = [mcall EXCEPT ![p].pc = "registered"]
    /\ issued' = Returned(mcall[p].id, mcall[p].handle)
    /\ UNCHANGED <<slabVars, id_to_handle, next_id, conn, srv, cleanup, now,
                   calls, procVars, poolVars, stream, clientVars, auxVars>>

\* activate(id), by the task that registered id.
CallerActivate(p) ==
    /\ mcall[p].pc = "registered"
    /\ LET id == mcall[p].id
       IN  IF id \in DOMAIN id_to_handle /\ IsSome(SlabGet(id_to_handle[id]))
           THEN slots' = [slots EXCEPT ![id_to_handle[id]] =
                             Some(SetActive(Unwrap(@)))]
           ELSE slots' = slots
    /\ mcall' = [mcall EXCEPT ![p].pc = "active"]
    /\ UNCHANGED <<capacity, free_bitset, slot_lock, allocated, id_to_handle,
                   next_id, conn, srv, cleanup, now, metrics, calls, issued,
                   procVars, poolVars, stream, clientVars, auxVars>>

\* unregister(id): self.id_to_handle.remove(&id); nothing more is done when
\* the map had no entry.
UnregisterMapRemove(p) ==
    /\ mcall[p].pc \in {"registered", "active"}
    /\ LET id == mcall[p].id
       IN  IF id \in DOMAIN id_to_handle
           THEN /\ id_to_handle' = MapRemove(id_to_handle, id)
                /\ mcall' = [mcall EXCEPT ![p].pc = "unreg_slab",
                                          ![p].handle = Some(id_to_handle[id])]
           ELSE /\ id_to_handle' = id_to_handle
                /\ mcall' = [mcall EXCEPT ![p] = CallerNew]
    /\ UNCHANGED <<slabVars, next_id, conn, srv, cleanup, now, metrics, calls,
                   issued, procVars, poolVars, stream, clientVars, auxVars>>

\* unregister(id): self.connections.remove(handle), and
\* METRICS.connection_closed() when it returned the state.
UnregisterSlabRemove(p) ==
    /\ mcall[p].pc = "unreg_slab"
    /\ LET handle == Unwrap(mcall[p].handle)
       IN  IF IsSome(SlabGet(handle))
           THEN /\ SlabRemoved(handle)
                /\ metrics' = ConnectionClosed(metrics)
           ELSE UNCHANGED <<free_bitset, slots, allocated, metrics>>
    /\ mcall' = [mcall EXCEPT ![p] = CallerNew]
    /\ UNCHANGED <<capacity, slot_lock, id_to_handle, next_id, conn, srv,
                   cleanup, now, calls, issued, procVars, poolVars, stream,
                   clientVars, auxVars>>

\* ------------------------------------------------------------------------
\* LockSpec: the lookup map's lock and the slot locks taken by the manager's
\* operations (src/src/connection/manager.rs, src/src/pool/slab.rs). The map
\* is one DashMap shard; a write of the map (insert, remove) takes and
\* releases its lock within one call, a read returns a Ref that holds it.
\* cleanup_idle is its collection pass, which locks as list_connections
\* does, followed by unregister calls.
\* ------------------------------------------------------------------------

\* A task that is not inside a manager call and holds no guard.
LockIdle ==
    [pc |-> "idle", op |-> "none", id |-> 0, handle |-> None, map |-> "none",
     todo |-> {}]

\* The tasks that call the manager.
LockCallers == {1, 2}

LockOps ==
    {"register", "unregister", "activate", "record_traffic", "get",
     "list_connections", "drain"}

\* The tasks holding a Ref into the map, and those about to write it.
Readers == {p \in LockCallers : mcall[p].map = "read"}

Writers == {p \in LockCallers : mcall[p].pc \in {"map_insert", "map_remove"}}

\* The slot locks task p holds.
HeldSlots(p) == {i \in DOMAIN slot_lock : slot_lock[i] = Some(p)}

lockFrame == <<capacity, conn, srv, cleanup, now, calls, issued, procVars,
               poolVars, stream, clientVars, auxVars>>

\* Task p calls an operation of the manager; register mints its id.
BeginCall(p, op, id) ==
    /\ mcall[p].pc = "idle"
    /\ IF op = "register"
       THEN /\ id = next_id
            /\ next_id <= MaxRaceRegisters
            /\ next_id' = next_id + 1
       ELSE /\ next_id' = next_id
            /\ (op \in {"list_connections", "drain"}) <=> (id = 0)
    /\ mcall' = [mcall EXCEPT ![p] =
          [LockIdle EXCEPT !.op = op, !.id = id,
                           !.pc = CASE op = "register" -> "slab_insert"
                                    [] op = "unregister" -> "map_remove"
                                    [] op \in {"list_connections", "drain"}
                                          -> "map_iter"
                                    [] OTHER -> "map_get"]]
    /\ UNCHANGED <<free_bitset, slots, slot_lock, allocated, id_to_handle,
                   metrics, lockFrame>>

\* register: self.connections.insert(state)?, which claims a bit, locks the
\* slot, writes it and unlocks.
CallSlabInsert(p) ==
    /\ mcall[p].pc = "slab_insert"
    /\ LET handle == InsertScan(0)
       IN  IF IsSome(handle)
           THEN /\ slot_lock[Unwrap(handle)] = None
                /\ SlabInserted(Unwrap(handle),
                                ConnectionStateNew(mcall[p].id, p))
                /\ mcall' = [mcall EXCEPT ![p].pc = "map_insert",
                                          ![p].handle = handle]
           ELSE /\ UNCHANGED <<free_bitset, slots, allocated>>
                /\ mcall' = [mcall EXCEPT ![p] = LockIdle]
    /\ UNCHANGED <<slot_lock, id_to_handle, next_id, metrics, lockFrame>>

\* register: self.id_to_handle.insert(id, handle) under the map's write
\* lock, then METRICS.connection_opened().
CallMapInsert(p) ==
    /\ mcall[p].pc = "map_insert"
    /\ Readers = {}
    /\ id_to_handle' = id_to_handle @@ (mcall[p].id :> Unwrap(mcall[p].handle))
    /\ metrics' = ConnectionOpened(metrics)
    /\ mcall' = [mcall EXCEPT ![p] = LockIdle]
    /\ UNCHANGED <<free_bitset, slots, slot_lock, allocated, next_id,
                   lockFrame>>

\* unregister: self.id_to_handle.remove(&id) under the map's write lock.
CallMapRemove(p) ==
    /\ mcall[p].pc = "map_remove"
    /\ Readers = {}
    /\ LET id == mcall[p].id
       IN  IF id \in DOMAIN id_to_handle
           THEN /\ id_to_handle' = MapRemove(id_to_handle, id)
                /\ mcall' = [mcall EXCEPT ![p].pc = "slab_remove",
                                          ![p].handle = Some(id_to_handle[id])]
           ELSE /\ id_to_handle' = id_to_handle
                /\ mcall' = [mcall EXCEPT ![p] = LockIdle]
    /\ UNCHANGED <<free_bitset, slots, slot_lock, allocated, next_id, metrics,
                   lockFrame>>

\* unregister: self.connections.remove(handle), which locks the slot, takes
\* the state and unlocks; METRICS.connection_closed().
CallSlabRemove(p) ==
    /\ mcall[p].pc = "slab_remove"
    /\ LET handle == Unwrap(mcall[p].handle)
       IN  /\ slot_lock[handle] = None
           /\ IF IsSome(SlabGet(handle))
              THEN /\ SlabRemoved(handle)
                   /\ metrics' = ConnectionClosed(metrics)
              ELSE UNCHANGED <<free_bitset, slots, allocated, metrics>>
    /\ mcall' = [mcall EXCEPT ![p] = LockIdle]
    /\ UNCHANGED <<slot_lock, id_to_handle, next_id, lockFrame>>

\* activate, record_traffic, get, get_mut: self.id_to_handle.get(&id), and
\* list_connections, drain: self.id_to_handle.iter(); the Ref or the
\* iterator holds the map's read lock.
CallMapGet(p) ==
    /\ mcall[p].pc \in {"map_get", "map_iter"}
    /\ LET id == mcall[p].id
       IN  mcall' = [mcall EXCEPT ![p] =
              IF mcall[p].pc = "map_iter"
              THEN [@ EXCEPT !.pc = "iter", !.map = "read",
                             !.todo = DOMAIN id_to_handle]
              ELSE IF id \in DOMAIN id_to_handle
              THEN [@ EXCEPT !.pc = "slot", !.map = "read",
                             !.handle = Some(id_to_handle[id])]
              ELSE LockIdle]
    /\ UNCHANGED <<free_bitset, slots, slot_lock, allocated, id_to_handle,
                   next_id, metrics, lockFrame>>

\* ConnectionSlab::get / get_mut: self.slots[idx].lock(), with the Ref held.
CallSlotLock(p) ==
    /\ mcall[p].pc = "slot"
    /\ slot_lock[Unwrap(mcall[p].handle)] = None
    /\ slot_lock' = [slot_lock EXCEPT ![Unwrap(mcall[p].handle)] = Some(p)]
    /\ mcall' = [mcall EXCEPT ![p].pc =
                    IF mcall[p].op = "get" THEN "return" ELSE "release"]
    /\ UNCHANGED <<free_bitset, slots, allocated, id_to_handle, next_id,
                   metrics, lockFrame>>

\* activate, record_traffic(id, 0, 0): the state is updated, then the slot
\* guard and the Ref go out of scope.
CallRelease_KeepsSlot(p) ==
    /\ mcall[p].pc = "release"
    /\ LET handle == Unwrap(mcall[p].handle)
       IN  slots' = [slots EXCEPT ![handle] =
                        IF mcall[p].op = "activate" /\ IsSome(@)
                        THEN Some(SetActive(Unwrap(@)))
                        ELSE @]
    /\ slot_lock' = slot_lock
    /\ mcall' = [mcall EXCEPT ![p] = LockIdle]
    /\ UNCHANGED <<free_bitset, allocated, id_to_handle, next_id, metrics,
                   lockFrame>>

CallRelease(p) ==
    /\ mcall[p].pc = "release"
    /\ LET handle == Unwrap(mcall[p].handle)
       IN  /\ slots' = [slots EXCEPT ![handle] =
                           IF mcall[p].op = "activate" /\ IsSome(@)
                           THEN Some(SetActive(Unwrap(@)))
                           ELSE @]
           /\ slot_lock' = [slot_lock EXCEPT ![handle] = None]
    /\ mcall' = [mcall EXCEPT ![p] = LockIdle]
    /\ UNCHANGED <<free_bitset, allocated, id_to_handle, next_id, metrics,
                   lockFrame>>

\* get / get_mut return: the Ref is dropped; the caller has the slot guard
\* of an occupied slot, and nothing of an empty one.
CallReturnGuard(p) ==
    /\ mcall[p].pc = "return"
    /\ LET handle == Unwrap(mcall[p].handle)
       IN  IF IsSome(SlabGet(handle))
           THEN /\ mcall' = [mcall EXCEPT ![p].pc = "guard",
                                          ![p].map = "none"]
                /\ slot_lock' = slot_lock
           ELSE /\ mcall' = [mcall EXCEPT ![p] = LockIdle]
                /\ slot_lock' = [slot_lock EXCEPT ![handle] = None]
    /\ UNCHANGED <<free_bitset, slots, allocated, id_to_handle, next_id,
                   metrics, lockFrame>>

\* The caller drops the guard get / get_mut returned, having called no
\* other operation of the manager meanwhile.
GuardDrop(p) ==
    /\ mcall[p].pc = "guard"
    /\ slot_lock' = [slot_lock EXCEPT ![Unwrap(mcall[p].handle)] = None]
    /\ mcall' = [mcall EXCEPT ![p] = LockIdle]
    /\ UNCHANGED <<free_bitset, slots, allocated, id_to_handle, next_id,
                   metrics, lockFrame>>

\* list_connections, drain: one entry of the iteration, whose slot is
\* locked by get / get_mut, read or marked Draining, and unlocked.
IterVisit(p, id) ==
    /\ mcall[p].pc = "iter"
    /\ id \in mcall[p].todo
    /\ slot_lock[id_to_handle[id]] = None
    /\ slots' = [slots EXCEPT ![id_to_handle[id]] =
                    IF mcall[p].op = "drain" /\ IsSome(@)
                    THEN Some(SetDraining(Unwrap(@)))
                    ELSE @]
    /\ mcall' = [mcall EXCEPT ![p].todo = @ \ {id}]
    /\ UNCHANGED <<free_bitset, slot_lock, allocated, id_to_handle, next_id,
                   metrics, lockFrame>>

\* list_connections, drain: the iteration ends and releases the map.
IterEnd(p) ==
    /\ mcall[p].pc = "iter"
    /\ mcall[p].todo = {}
    /\ mcall' = [mcall EXCEPT ![p] = LockIdle]
    /\ UNCHANGED <<free_bitset, slots, slot_lock, allocated, id_to_handle,
                   next_id, metrics, lockFrame>>

\* ------------------------------------------------------------------------
\* Wire formats: the client's encoders and decoder
\* (src/mytunnel-client/src/protocol.rs) and the server's parsers
\* (src/src/server/acceptor.rs), on sequences of bytes 0..255
\* ------------------------------------------------------------------------

\* The longest host the encoders accept, in bytes.
MaxHostBytes == 255

U16Modulus == 65536

\* BufMut::put_u16 / u16::to_be_bytes: the two bytes of a u16.
PutU16_LittleEndian(port) == <<port % 256, (port \div 256) % 256>>

PutU16(port) == <<(port \div 256) % 256, port % 256>>

\* u16::from_be_bytes([hi, lo]) / Buf::get_u16
FromBeBytes(hi, lo) == (hi * 256 + lo) % U16Modulus

\* `len as u8`
AsU8(n) == n % 256

\* String::from_utf8 / str::from_utf8 on the bytes of a host: a sequence of
\* bytes below 0x80 is valid UTF-8 and is the string itself; the hosts
\* explored are ASCII, and a byte from 0x80 up is never the start of a
\* sequence they contain.
FromUtf8(bytes) ==
    IF \A i \in DOMAIN bytes : bytes[i] < 128 THEN Some(bytes) ELSE None

\* The bytes of data from position from (1-based) to its end.
Rest(data, from) == SubSeq(data, from, Len(data))

\* encode_tcp_request(host, port): Err (None) for a host over 255 bytes.
EncodeTcpRequest(host, port) ==
    IF Len(host) > MaxHostBytes THEN None
    ELSE Some(<<TCP_CONNECT>> \o PutU16(port) \o <<AsU8(Len(host))>> \o host)

\* encode_udp_packet(host, port, payload)
EncodeUdpPacket(host, port, payload) ==
    IF Len(host) > MaxHostBytes THEN None
    ELSE Some(PutU16(port) \o <<AsU8(Len(host))>> \o host \o payload)

\* decode_udp_packet(data): Err (None) for a packet under 4 bytes, a
\* truncated host or a host that is not UTF-8.
DecodeUdpPacket(data) ==
    IF Len(data) < 4 THEN None
    ELSE LET port == FromBeBytes(data[1], data[2])
             host_len == data[3]
         IN  IF Len(data) - 3 < host_len THEN None
             ELSE LET host == FromUtf8(SubSeq(data, 4, 3 + host_len))
                  IN  IF IsSome(host)
                      THEN Some([host |-> Unwrap(host), port |-> port,
                                 payload |-> Rest(data, 4 + host_len)])
                      ELSE None

\* The header parse of DatagramHandler::handle_datagram: None when the
\* handler returns before relaying (datagram under 4 bytes, truncated host,
\* host not UTF-8).
ParseDatagram(data) ==
    IF Len(data) < 4 THEN None
    ELSE LET port == FromBeBytes(data[1], data[2])
             host_len == data[3]
         IN  IF Len(data) < 3 + host_len THEN None
             ELSE LET host == FromUtf8(SubSeq(data, 4, 3 + host_len))
                  IN  IF IsSome(host)
                      THEN Some([host |-> Unwrap(host), port |-> port,
                                 payload |-> Rest(data, 4 + host_len)])
                      ELSE None

\* RecvStream::read_exact of n bytes at position at (1-based) of the bytes
\* the stream carries: Err (None) when the stream ends first.
ReadExact(data, at, n) ==
    IF at - 1 + n <= Len(data) THEN Some(SubSeq(data, at, at + n - 1)) ELSE None

\* The header parse of StreamHandler::handle_stream: the request type, port
\* and host it reads and the number of bytes it consumed from the stream.
ParseTcpRequest(data) ==
    LET header == ReadExact(data, 1, 3)
    IN  IF ~IsSome(header) THEN None
        ELSE LET host_len_buf == ReadExact(data, 4, 1)
             IN  IF ~IsSome(host_len_buf) THEN None
                 ELSE LET host_len == Unwrap(host_len_buf)[1]
                          host_buf == ReadExact(data, 5, host_len)
                      IN  IF ~IsSome(host_buf) THEN None
                          ELSE LET host == FromUtf8(Unwrap(host_buf))
                               IN  IF IsSome(host)
                                   THEN Some([request_type |-> Unwrap(header)[1],
                                              port |-> FromBeBytes(Unwrap(header)[2],
                                                                   Unwrap(header)[3]),
                                              host |-> Unwrap(host),
                                              consumed |-> 4 + host_len])
                                   ELSE None

\* Host lengths explored: empty, short, the longest accepted, one over.
HostLens == {0, 1, 2, MaxHostBytes, MaxHostBytes + 1}

\* An ASCII host name of n bytes.
HostOf(n) == [i \in 1..n |-> 97 + (i % 26)]

\* Ports explored: both bytes zero, low byte only, high byte only, all ones.
CodecPorts == {0, 80, 256, U16Modulus - 1}

\* Payloads explored: every sequence of up to MaxPayload bytes 0x00 / 0xFF.
Payloads == UNION {[1..n -> {0, 255}] : n \in 0..MaxPayload}

\* A call of the codec with its arguments, before any function ran.
CodecNew(host, port, payload) ==
    [pc |-> "start", op |-> "none", host |-> host, port |-> port,
     payload |-> payload, wire |-> None, decoded |-> None, parsed |-> None]

\* The client calls encode_tcp_request(host, port).
CodecEncodeTcp ==
    /\ codec.pc = "start"
    /\ LET wire == EncodeTcpRequest(codec.host, codec.port)
       IN  codec' = [codec EXCEPT !.op = "tcp", !.wire = wire,
                        !.pc = IF IsSome(wire) THEN "tcp_sent" ELSE "rejected"]
    /\ UNCHANGED notCodec

\* The server's stream handler reads the request from the stream, on which
\* the client's first data bytes follow the request.
CodecParseTcp ==
    /\ codec.pc = "tcp_sent"
    /\ codec' = [codec EXCEPT
                    !.parsed = ParseTcpRequest(Unwrap(codec.wire) \o codec.payload),
                    !.pc = "tcp_parsed"]
    /\ UNCHANGED notCodec

\* The client calls encode_udp_packet(host, port, payload).
CodecEncodeUdp ==
    /\ codec.pc = "start"
    /\ LET wire == EncodeUdpPacket(codec.host, codec.port, codec.payload)
       IN  codec' = [codec EXCEPT !.op = "udp", !.wire = wire,
                        !.pc = IF IsSome(wire) THEN "udp_sent" ELSE "rejected"]
    /\ UNCHANGED notCodec

\* decode_udp_packet applied to the encoded datagram.
CodecDecodeUdp ==
    /\ codec.pc = "udp_sent"
    /\ codec' = [codec EXCEPT !.decoded = DecodeUdpPacket(Unwrap(codec.wire)),
                              !.pc = "udp_decoded"]
    /\ UNCHANGED notCodec

\* The server's datagram handler parses the encoded datagram.
CodecParseUdp ==
    /\ codec.pc = "udp_decoded"
    /\ codec' = [codec EXCEPT !.parsed = ParseDatagram(Unwrap(codec.wire)),
                              !.pc = "udp_parsed"]
    /\ UNCHANGED notCodec

\* ------------------------------------------------------------------------
\* The client's HTTP CONNECT proxy
\* (src/mytunnel-client/src/proxy/http.rs, tunnel/stream.rs), from the point
\* where the CONNECT request line and headers have been read
\* ------------------------------------------------------------------------

HTTP_OK == 200

HTTP_BAD_GATEWAY == 502

\* handle_http_client after it parsed "CONNECT host:port" and the headers.
\* responses are the status lines written to the HTTP client.
HttpNew ==
    [pc |-> "open_stream", request_sent |-> FALSE, tunnel |-> "none",
     responses |-> <<>>, result |-> "running"]

\* send_error(&mut writer, 502, "Bad Gateway"); return Err(e).
BadGateway(h) ==
    [h EXCEPT !.pc = "done", !.result = "Err",
              !.responses = Append(@, HTTP_BAD_GATEWAY)]

\* decode_tcp_response(&response): Ok only for STATUS_OK.
DecodeTcpResponse(status) == IF status = STATUS_OK THEN "Ok" ELSE "Err"

\* tunnel.open_stream().await: Err is answered with 502.
HttpOpenStream ==
    /\ http.pc = "open_stream"
    /\ \E ok \in BOOLEAN :
          http' = IF ok THEN [http EXCEPT !.pc = "send_request"]
                  ELSE BadGateway(http)
    /\ UNCHANGED notHttp

\* establish_tcp_tunnel: encode_tcp_request and send.write_all(&request);
\* a failed write makes establish_tcp_tunnel return Err.
HttpSendRequest ==
    /\ http.pc = "send_request"
    /\ \E ok \in BOOLEAN :
          http' = IF ok
                  THEN [http EXCEPT !.pc = "read_response",
                                    !.request_sent = TRUE]
                  ELSE [http EXCEPT !.pc = "respond", !.tunnel = "Err"]
    /\ UNCHANGED notHttp

\* establish_tcp_tunnel: recv.read_exact of the one status byte, which
\* fails when the server's handler ended without writing, and
\* decode_tcp_response.
HttpReadResponse ==
    /\ http.pc = "read_response"
    /\ \/ /\ stream.sent # <<>>
          /\ http' = [http EXCEPT !.pc = "respond",
                                  !.tunnel = DecodeTcpResponse(Head(stream.sent))]
       \/ /\ stream.sent = <<>>
          /\ stream.pc = "done"
          /\ http' = [http EXCEPT !.pc = "respond", !.tunnel = "Err"]
    /\ UNCHANGED notHttp

\* handle_http_client: 502 when establish_tcp_tunnel returned Err, else
\* "HTTP/1.1 200 Connection Established" and the bidirectional proxy.
HttpRespond ==
    /\ http.pc = "respond"
    /\ http' = IF http.tunnel = "Ok"
               THEN [http EXCEPT !.pc = "proxy",
                                 !.responses = Append(@, HTTP_OK)]
               ELSE BadGateway(http)
    /\ UNCHANGED notHttp

\* ------------------------------------------------------------------------
\* RoutingPolicy::decide called on a request (src/src/router/policy.rs)
\* ------------------------------------------------------------------------

\* impl Default for RoutingPolicy
DefaultPolicy ==
    [default_allow |-> TRUE, blocked_hosts |-> {}, blocked_ports |-> {},
     allowed_ports |-> {}]

\* A policy and a request, before decide is called; decisions are the
\* RouteDecisions returned so far.
RouteNew(policy, host, port) ==
    [pc |-> "ready", policy |-> policy, target_host |-> host,
     target_port |-> port, decisions |-> <<>>]

\* policy.decide(&request): the policy is borrowed immutably.
RouteDecide ==
    /\ route.pc = "ready"
    /\ Len(route.decisions) < 2
    /\ route' = [route EXCEPT !.decisions =
                    Append(@, Decide(route.policy, route.target_host,
                                     route.target_port))]
    /\ UNCHANGED notRoute

\* ------------------------------------------------------------------------
\* Metrics::snapshot taken by one thread while other tasks update the
\* counters (src/src/metrics/counters.rs)
\* ------------------------------------------------------------------------

\* The fields of MetricsSnapshot, in the order snapshot() loads them.
SnapshotFields ==
    <<"connections_total", "connections_active", "connections_failed",
      "bytes_received", "bytes_sent", "packets_received", "packets_sent",
      "streams_opened", "streams_closed", "datagrams_received",
      "datagrams_sent", "errors_total", "timeouts_total">>

\* counter.fetch_add(n, Relaxed); the counts explored stay far below 2^64.
FetchAdd(m, field, n) == [m EXCEPT ![field] = @ + n]

\* counter.fetch_sub(n, Relaxed)
FetchSub(m, field, n) == [m EXCEPT ![field] = @ - n]

\* self.<field>.load(Relaxed)
Loaded_CopyPaste(m, field) ==
    IF field = "connections_failed" THEN m.connections_active ELSE m[field]

Loaded(m, field) == m[field]

\* The thread taking snapshots: taken are the snapshots returned so far,
\* cur the fields of the running call loaded so far, updates the number of
\* counter updates made by the other tasks.
SnapsNew ==
    [pc |-> "ready", at |-> 0, cur |-> MetricsNew, taken |-> <<>>,
     updates |-> 0]

\* One fetch_add of the increment methods (connection_opened, bytes_rx,
\* stream_opened, ...), made by another task.
MetricsFetchAdd(field) ==
    /\ snaps.updates < MaxUpdates
    /\ metrics' = FetchAdd(metrics, field, 1)
    /\ snaps' = [snaps EXCEPT !.updates = @ + 1]
    /\ UNCHANGED notSnaps

\* connection_closed, made by the task of a connection that was opened.
MetricsConnectionClosed ==
    /\ snaps.updates < MaxUpdates
    /\ metrics.connections_active > 0
    /\ metrics' = FetchSub(metrics, "connections_active", 1)
    /\ snaps' = [snaps EXCEPT !.updates = @ + 1]
    /\ UNCHANGED notSnaps

\* snapshot() is called.
SnapshotCall ==
    /\ snaps.pc = "ready"
    /\ Len(snaps.taken) < 2
    /\ snaps' = [snaps EXCEPT !.pc = "loading", !.at = 1, !.cur = MetricsNew]
    /\ UNCHANGED <<metrics, notSnaps>>

\* snapshot() loads its next field; after the last one it returns.
SnapshotLoad ==
    /\ snaps.pc = "loading"
    /\ LET field == SnapshotFields[snaps.at]
           cur == [snaps.cur EXCEPT ![field] = Loaded(metrics, field)]
       IN  snaps' = IF snaps.at < Len(SnapshotFields)
                    THEN [snaps EXCEPT !.at = @ + 1, !.cur = cur]
                    ELSE [snaps EXCEPT !.pc = "ready", !.at = 0,
                                       !.cur = MetricsNew,
                                       !.taken = Append(@, cur)]
    /\ UNCHANGED <<metrics, notSnaps>>

\* ------------------------------------------------------------------------
\* UdpSocketPool (src/src/proxy/udp.rs)
\* ------------------------------------------------------------------------

Targets == 1..NumTargets

\* UdpSocketPool::new, with the clock at 0: sockets maps a target to
\* Some([socket, last_used]); bound counts the sockets bound so far, which
\* names them; calls logs each get_or_create that returned.
SocketsNew ==
    [pc |-> "ready", now |-> 0, sockets |-> [t \in Targets |-> None],
     bound |-> 0, target |-> 0, calls |-> <<>>]

\* last_used.elapsed() < ttl for every entry kept by cleanup_stale
CleanupStale(entries, at) ==
    [t \in Targets |->
        IF entries[t] # None /\ at - Unwrap(entries[t]).last_used < SocketTtl * 2
        THEN entries[t] ELSE None]

\* The entry for target exists and last_used.elapsed() < SOCKET_TTL.
CacheHit(entries, target, at) ==
    /\ entries[target] # None
    /\ at - Unwrap(entries[target]).last_used < SocketTtl

\* get_or_create(target) finds a live entry and returns its socket; the
\* entry is left as it is.
GetOrCreateHit(target) ==
    /\ sockets.pc = "ready"
    /\ Len(sockets.calls) < MaxGets
    /\ CacheHit(sockets.sockets, target, sockets.now)
    /\ sockets' = [sockets EXCEPT
          !.calls = Append(@, [target |-> target, at |-> sockets.now,
                               socket |-> Some(Unwrap(sockets.sockets[target]).socket)])]
    /\ UNCHANGED notSockets

\* get_or_create(target) finds no live entry and awaits UdpSocket::bind.
GetOrCreateMiss(target) ==
    /\ sockets.pc = "ready"
    /\ Len(sockets.calls) < MaxGets
    /\ ~CacheHit(sockets.sockets, target, sockets.now)
    /\ sockets' = [sockets EXCEPT !.pc = "binding", !.target = target]
    /\ UNCHANGED notSockets

\* The bind succeeded: insert (socket, Instant::now()), cleanup_stale, Ok.
BindOk ==
    /\ sockets.pc = "binding"
    /\ LET socket == sockets.bound + 1
           entry == [socket |-> socket, last_used |-> sockets.now]
       IN  sockets' = [sockets EXCEPT
              !.pc = "ready", !.target = 0, !.bound = socket,
              !.sockets = CleanupStale([@ EXCEPT ![sockets.target] = Some(entry)],
                                       sockets.now),
              !.calls = Append(@, [target |-> sockets.target,
                                   at |-> sockets.now,
                                   socket |-> Some(socket)])]
    /\ UNCHANGED notSockets

\* The bind failed: "Failed to bind UDP socket" is returned.
BindErr ==
    /\ sockets.pc = "binding"
    /\ sockets' = [sockets EXCEPT
          !.pc = "ready", !.target = 0,
          !.calls = Append(@, [target |-> sockets.target, at |-> sockets.now,
                               socket |-> None])]
    /\ UNCHANGED notSockets

\* The clock advances.
SocketsTick ==
    /\ sockets.pc # "idle"
    /\ sockets.now < MaxTime
    /\ sockets' = [sockets EXCEPT !.now = @ + 1]
    /\ UNCHANGED notSockets

\* ------------------------------------------------------------------------
\* The datagram handlers of one connection and their UDP relays
\* (src/src/server/acceptor.rs, src/src/proxy/udp.rs), on sequences of bytes
\* ------------------------------------------------------------------------

\* The datagrams the client sends: one of 3 bytes, one for host "a" port 53
\* with a payload byte, one for host "b" port 53 without payload.
RelayDatagrams == {<<0, 53, 0>>, <<0, 53, 1, 97, 7>>, <<0, 53, 1, 98>>}

\* The payloads a target answers with.
Answers == {<<>>, <<9>>}

\* tokio::net::lookup_host(target).next(), when it resolves: the explored
\* hosts "a" and "b" resolve to the targets 1 and 2.
LookupHost(host, port) == IF host = <<97>> THEN 1 ELSE 2

\* The response datagram handle_datagram assembles.
ResponseBuf(port, host, response) ==
    PutU16(port) \o <<AsU8(Len(host))>> \o host \o response

\* A connection in its dispatch loop with no datagram received yet.
\* handlers are the DatagramHandler tasks in the order of their datagrams,
\* bound counts the UDP sockets bound so far, egress logs each send_to as
\* [target, socket], sent the responses the QUIC connection accepted as
\* [of, bytes], of being the handler that sent them.
RelayNew ==
    [pc |-> "relay", quic |-> "open", handlers |-> <<>>, bound |-> 0,
     egress |-> <<>>, sent |-> <<>>]

\* handle_connection: read_datagram() yields data; METRICS.datagram_rx()
\* and a DatagramHandler task is spawned.
RelayReadDatagram(data) ==
    /\ sockets.pc = "relay"
    /\ sockets.quic = "open"
    /\ Len(sockets.handlers) < MaxDatagrams
    /\ metrics' = DatagramRx(metrics)
    /\ sockets' = [sockets EXCEPT
          !.handlers = Append(@, [pc |-> "parse", data |-> data,
                                  pool |-> [t \in Targets |-> None],
                                  target |-> 0, socket |-> None])]
    /\ UNCHANGED notRelay

\* handle_datagram: the header parse, which ends the handler when it fails,
\* and UdpRelay::new(self.buffer_pool.clone()), which makes a socket pool.
HandlerParse(i) ==
    /\ sockets.pc = "relay"
    /\ i \in DOMAIN sockets.handlers
    /\ sockets.handlers[i].pc = "parse"
    /\ sockets' = [sockets EXCEPT !.handlers[i] =
          IF IsSome(ParseDatagram(@.data))
          THEN [@ EXCEPT !.pc = "relay", !.pool = SocketsNew.sockets]
          ELSE [@ EXCEPT !.pc = "done"]]
    /\ UNCHANGED <<metrics, notRelay>>

\* relay_packet up to send_to: lookup_host, get_or_create on the relay's own
\* pool (bind on a miss) and send_to; each may fail, which ends the handler.
HandlerSendTo(i) ==
    /\ sockets.pc = "relay"
    /\ i \in DOMAIN sockets.handlers
    /\ sockets.handlers[i].pc = "relay"
    /\ LET h == sockets.handlers[i]
           request == Unwrap(ParseDatagram(h.data))
           target == LookupHost(request.host, request.port)
           hit == CacheHit(h.pool, target, 0)
           socket == IF hit THEN Unwrap(h.pool[target]).socket
                     ELSE sockets.bound + 1
           pool == IF hit THEN h.pool
                   ELSE CleanupStale([h.pool EXCEPT ![target] =
                           Some([socket |-> socket, last_used |-> 0])], 0)
       IN  \E resolved, bind_ok, send_ok \in BOOLEAN :
              sockets' =
                 IF ~resolved
                 THEN [sockets EXCEPT !.handlers[i].pc = "done"]
                 ELSE IF ~hit /\ ~bind_ok
                 THEN [sockets EXCEPT !.handlers[i].pc = "done",
                                      !.handlers[i].target = target]
                 ELSE IF ~send_ok
                 THEN [sockets EXCEPT
                         !.bound = IF hit THEN @ ELSE socket,
                         !.handlers[i] = [h EXCEPT !.pc = "done",
                                                   !.target = target,
                                                   !.pool = pool,
                                                   !.socket = Some(socket)]]
                 ELSE [sockets EXCEPT
                         !.bound = IF hit THEN @ ELSE socket,
                         !.egress = Append(@, [target |-> target,
                                               socket |-> socket]),
                         !.handlers[i] = [h EXCEPT !.pc = "wait",
                                                   !.target = target,
                                                   !.pool = pool,
                                                   !.socket = Some(socket)]]
    /\ UNCHANGED <<metrics, notRelay>>

\* relay_packet: recv_from fails or the 5 s timeout passes; handle_datagram
\* skips the response and returns Ok(()).
HandlerNoAnswer(i) ==
    /\ sockets.pc = "relay"
    /\ i \in DOMAIN sockets.handlers
    /\ sockets.handlers[i].pc = "wait"
    /\ sockets' = [sockets EXCEPT !.handlers[i].pc = "done"]
    /\ UNCHANGED <<metrics, notRelay>>

\* relay_packet returns the target's answer: the response is assembled and
\* given to connection.send_datagram, which takes it on an open connection
\* and returns Err on a closed one; the result is dropped and
\* METRICS.datagram_tx() is called.
HandlerRespond(i, answer) ==
    /\ sockets.pc = "relay"
    /\ i \in DOMAIN sockets.handlers
    /\ sockets.handlers[i].pc = "wait"
    /\ LET request == Unwrap(ParseDatagram(sockets.handlers[i].data))
           response_buf == ResponseBuf(request.port, request.host, answer)
       IN  sockets' = [sockets EXCEPT
              !.handlers[i].pc = "done",
              !.sent = IF sockets.quic = "open"
                       THEN Append(@, [of |-> i, bytes |-> response_buf])
                       ELSE @]
    /\ metrics' = DatagramTx(metrics)
    /\ UNCHANGED notRelay

\* The client closes its connection, or the transport loses it.
RelayClientGone ==
    /\ sockets.pc = "relay"
    /\ sockets.quic = "open"
    /\ sockets' = [sockets EXCEPT !.quic = "closed"]
    /\ UNCHANGED <<metrics, notRelay>>

\* ------------------------------------------------------------------------
\* Specifications
\* ------------------------------------------------------------------------

\* The slab as it stands in specifications that do not exercise SlabSpec's
\* threads.
ProcsIdle ==
    /\ spc = [p \in Procs |-> "idle"]
    /\ sloc = [p \in Procs |-> NoLocals]
    /\ live = [i \in 0..(ActualCapacity(MaxCapacity) - 1) |-> 0]

\* A slab on its own: no pool, no manager, no server, no client and no
\* caller of the manager exists beside it.
SlabAlone ==
    /\ queue = <<>> /\ queue_cap = <<>> /\ pool_allocated = <<>>
    /\ in_use = <<>> /\ held = EmptyBag /\ fresh_allocs = 0
    /\ pool_last = <<>>
    /\ metrics = MetricsIdle
    /\ stream = <<>>
    /\ id_to_handle = <<>> /\ next_id = 1
    /\ conn = <<>> /\ srv = <<>> /\ cleanup = <<>> /\ now = 0
    /\ mcall = <<>> /\ issued = <<>>
    /\ codec = <<>> /\ http = <<>>
    /\ route = <<>> /\ snaps = <<>> /\ sockets = <<>>

SlabInit ==
    /\ \E cap \in 0..MaxCapacity : SlabNew(cap)
    /\ ProcsIdle
    /\ calls = <<>>
    /\ SlabAlone

SlabNext ==
    \/ \E p \in Procs, v \in Values : InsertCall(p, v)
    \/ \E p \in Procs : InsertFull(p)
    \/ \E p \in Procs : InsertReturnNone(p)
    \/ \E p \in Procs : InsertLoad(p)
    \/ \E p \in Procs : InsertCas(p)
    \/ \E p \in Procs : InsertWrite(p)
    \/ \E p \in Procs : InsertAddReturn(p)
    \/ \E p \in Procs, idx \in 0..MaxCapacity : RemoveOutOfRange(p, idx)
    \/ \E p \in Procs, idx \in 0..MaxCapacity : RemoveEmpty(p, idx)
    \/ \E p \in Procs : RemoveReturnNone(p)
    \/ \E p \in Procs, idx \in 0..MaxCapacity : RemoveTake(p, idx)
    \/ \E p \in Procs : RemoveFetchOr(p)
    \/ \E p \in Procs : RemoveSubReturn(p)

SlabSpec == SlabInit /\ [][SlabNext]_vars

\* The threads of SlabSpec with a further thread that removes.
SlabRaceNext ==
    \/ SlabNext
    \/ \E idx \in 0..MaxCapacity : RemoveByOther(idx)

SlabRaceSpec == SlabInit /\ [][SlabRaceNext]_vars

\* A thread inside insert or remove takes its next step: the slot lock it
\* may wait for is released by a thread that is itself inside a call.
SlabRaceFair ==
    \A p \in Procs :
        /\ WF_vars(InsertFull(p))
        /\ WF_vars(InsertReturnNone(p))
        /\ WF_vars(InsertLoad(p))
        /\ WF_vars(InsertCas(p))
        /\ WF_vars(InsertWrite(p))
        /\ WF_vars(InsertAddReturn(p))
        /\ WF_vars(RemoveReturnNone(p))
        /\ WF_vars(RemoveFetchOr(p))
        /\ WF_vars(RemoveSubReturn(p))

SlabRaceLiveSpec == SlabRaceSpec /\ SlabRaceFair

\* BufferPool::new builds each tier on ArrayQueue::new(count), which panics
\* for a count of zero: a constructed pool has at least one buffer per tier.
PoolInit ==
    /\ \E counts \in [Tiers -> 1..MaxBuffers] : PoolNew(counts)
    /\ SlabNew(0)
    /\ ProcsIdle
    /\ metrics = MetricsNew
    /\ stream = StreamIdle
    /\ ServerIdle
    /\ CallersIdle
    /\ ClientsIdle
    /\ AuxIdle

PoolNext ==
    \/ \E size \in Tiers : Acquire(size)
    \/ \E size \in Tiers : AcquireOrAlloc(size)
    \/ \E b \in AllBuffers : DropBuffer(b)

PoolSpec == PoolInit /\ [][PoolNext]_vars

StreamInit ==
    /\ \E request_type \in RequestTypes, host \in Hosts, port \in Ports,
          policy \in Policies, target_up \in BOOLEAN :
          stream = StreamNew(request_type, host, port, policy, target_up)
    /\ metrics = MetricsNew
    /\ SlabNew(0)
    /\ ProcsIdle
    /\ PoolIdle
    /\ ServerIdle
    /\ CallersIdle
    /\ ClientsIdle
    /\ AuxIdle

StreamNext ==
    \/ ReadRequest
    \/ DispatchTcpConnect
    \/ DispatchUnknown
    \/ ProxyConnect
    \/ PumpClientToTarget
    \/ ClientToTargetEnd
    \/ PumpTargetToClient
    \/ TargetToClientEnd
    \/ PumpJoin

StreamSpec == StreamInit /\ [][StreamNext]_vars

\* The task spawned for the stream by handle_connection: handle_stream has
\* returned (an Err is logged), METRICS.stream_closed().
StreamTaskEnd ==
    /\ stream.pc = "done"
    /\ stream' = [stream EXCEPT !.pc = "closed"]
    /\ metrics' = StreamClosed(metrics)
    /\ UNCHANGED notStream

\* The task of one stream, from its spawn (after METRICS.stream_opened())
\* to its end.
StreamTaskInit ==
    /\ \E request_type \in RequestTypes, host \in Hosts, port \in Ports,
          policy \in Policies, target_up \in BOOLEAN :
          stream = StreamNew(request_type, host, port, policy, target_up)
    /\ metrics = StreamOpened(MetricsNew)
    /\ SlabNew(0)
    /\ ProcsIdle
    /\ PoolIdle
    /\ ServerIdle
    /\ CallersIdle
    /\ ClientsIdle
    /\ AuxIdle

StreamTaskNext ==
    \/ StreamNext
    \/ StreamTaskEnd

\* The runtime keeps polling the task: a step of the handler that depends
\* on nothing but the handler itself is eventually taken. What the client
\* sends and what the target sends or closes (ReadRequest, the pump steps,
\* TargetToClientEnd) is up to the peers and is not forced.
StreamTaskFair ==
    /\ WF_vars(DispatchTcpConnect)
    /\ WF_vars(DispatchUnknown)
    /\ WF_vars(ProxyConnect)
    /\ WF_vars(PumpJoin)
    /\ WF_vars(StreamTaskEnd)

StreamTaskSpec == StreamTaskInit /\ [][StreamTaskNext]_vars /\ StreamTaskFair

\* A CONNECT request at the client's HTTP proxy and the server's handler
\* of the stream the client opens for it; the handler reads the request
\* once the client has written it.
PolicyInit ==
    /\ \E policy \in Policies, host \in Hosts, port \in Ports :
          route = RouteNew(policy, host, port)
    /\ snaps = SnapsIdle
    /\ sockets = SocketsIdle
    /\ SlabNew(0)
    /\ ProcsIdle
    /\ PoolIdle
    /\ metrics = MetricsNew
    /\ stream = StreamIdle
    /\ ServerIdle
    /\ CallersIdle
    /\ ClientsIdle

PolicyNext == RouteDecide

PolicySpec == PolicyInit /\ [][PolicyNext]_vars

\* The counters of a server that has no connection or has one open.
MetricsInit ==
    /\ \E open \in 0..1 :
          metrics = [MetricsNew EXCEPT !.connections_total = open,
                                       !.connections_active = open]
    /\ snaps = SnapsNew
    /\ route = RouteIdle
    /\ sockets = SocketsIdle
    /\ SlabNew(0)
    /\ ProcsIdle
    /\ PoolIdle
    /\ stream = StreamIdle
    /\ ServerIdle
    /\ CallersIdle
    /\ ClientsIdle

MetricsNext ==
    \/ \E i \in DOMAIN SnapshotFields : MetricsFetchAdd(SnapshotFields[i])
    \/ MetricsConnectionClosed
    \/ SnapshotCall
    \/ SnapshotLoad

MetricsSpec == MetricsInit /\ [][MetricsNext]_vars

SocketPoolInit ==
    /\ sockets = SocketsNew
    /\ route = RouteIdle
    /\ snaps = SnapsIdle
    /\ metrics = MetricsNew
    /\ SlabNew(0)
    /\ ProcsIdle
    /\ PoolIdle
    /\ stream = StreamIdle
    /\ ServerIdle
    /\ CallersIdle
    /\ ClientsIdle

SocketPoolNext ==
    \/ \E target \in Targets : GetOrCreateHit(target)
    \/ \E target \in Targets : GetOrCreateMiss(target)
    \/ BindOk
    \/ BindErr
    \/ SocketsTick

SocketPoolSpec == SocketPoolInit /\ [][SocketPoolNext]_vars

RelayInit ==
    /\ sockets = RelayNew
    /\ route = RouteIdle
    /\ snaps = SnapsIdle
    /\ metrics = MetricsNew
    /\ SlabNew(0)
    /\ ProcsIdle
    /\ PoolIdle
    /\ stream = StreamIdle
    /\ ServerIdle
    /\ CallersIdle
    /\ ClientsIdle

RelayNext ==
    \/ \E data \in RelayDatagrams : RelayReadDatagram(data)
    \/ \E i \in 1..MaxDatagrams : HandlerParse(i)
    \/ \E i \in 1..MaxDatagrams : HandlerSendTo(i)
    \/ \E i \in 1..MaxDatagrams : HandlerNoAnswer(i)
    \/ \E i \in 1..MaxDatagrams, answer \in Answers : HandlerRespond(i, answer)
    \/ RelayClientGone

RelaySpec == RelayInit /\ [][RelayNext]_vars

TunnelInit ==
    /\ \E host \in Hosts, port \in Ports, policy \in Policies,
          target_up \in BOOLEAN :
          stream = StreamNew(TCP_CONNECT, host, port, policy, target_up)
    /\ http = HttpNew
    /\ codec = CodecIdle
    /\ AuxIdle
    /\ metrics = MetricsNew
    /\ SlabNew(0)
    /\ ProcsIdle
    /\ PoolIdle
    /\ ServerIdle
    /\ CallersIdle

\* The server's handler reads the request the client wrote to the stream.
TunnelReadRequest == http.request_sent /\ ReadRequest

TunnelNext ==
    \/ HttpOpenStream
    \/ HttpSendRequest
    \/ HttpReadResponse
    \/ HttpRespond
    \/ TunnelReadRequest
    \/ DispatchTcpConnect
    \/ ProxyConnect
    \/ PumpClientToTarget
    \/ ClientToTargetEnd
    \/ PumpTargetToClient
    \/ TargetToClientEnd
    \/ PumpJoin

TunnelSpec == TunnelInit /\ [][TunnelNext]_vars

ServerInit ==
    /\ ManagerNew(ConnectionSlots)
    /\ conn = [c \in Clients |-> ClientNew]
    /\ srv = ServerNew
    /\ cleanup = CleanupNew
    /\ now = 0
    /\ metrics = MetricsNew
    /\ ProcsIdle
    /\ PoolIdle
    /\ stream = StreamIdle
    /\ CallersIdle
    /\ ClientsIdle
    /\ AuxIdle

ServerNext ==
    \/ \E c \in Clients : ListenerAccept(c)
    \/ \E c \in Clients : HandshakeOk(c)
    \/ \E c \in Clients : HandshakeErr(c)
    \/ \E c \in Clients : Register(c)
    \/ \E c \in Clients : Activate(c)
    \/ \E c \in Clients : SubscribeShutdown(c)
    \/ \E c \in Clients : AcceptBi(c)
    \/ \E c \in Clients, rx \in BOOLEAN : StreamRelay(c, rx)
    \/ \E c \in Clients : StreamHandlerEnd(c)
    \/ \E c \in Clients : StreamHandlerErr(c)
    \/ \E c \in Clients : ClientGone(c)
    \/ \E c \in Clients : LoopBreak(c)
    \/ \E c \in Clients : ReadDatagramErr(c)
    \/ \E c \in Clients : ShutdownRecv(c)
    \/ \E c \in Clients : TaskUnregister(c)
    \/ SignalShutdown
    \/ DrainMark
    \/ DrainWaitEnd
    \/ EndpointClose
    \/ CleanupCollect
    \/ \E id \in 1..NumClients : CleanupRemove(id)
    \/ CleanupRemoveSlab
    \/ Tick

ServerSpec == ServerInit /\ [][ServerNext]_vars

SlabCallInit ==
    /\ \E cap \in 0..MaxCapacity : SlabNew(cap)
    /\ calls = <<>>
    /\ ProcsIdle
    /\ SlabAlone

SlabCallNext ==
    \/ \E value \in CallValues : CallInsert(value)
    \/ \E idx \in 0..MaxCapacity : CallRemove(idx)

SlabCallSpec == SlabCallInit /\ [][SlabCallNext]_vars

ManagerInit ==
    /\ ManagerNew(ConnectionSlots)
    /\ calls = <<>>
    /\ mcall = [p \in Callers |-> CallerNew]
    /\ issued = <<>>
    /\ conn = [c \in Clients |-> ClientNew]
    /\ srv = ServerNew
    /\ cleanup = CleanupNew
    /\ now = 0
    /\ metrics = MetricsNew
    /\ ProcsIdle
    /\ PoolIdle
    /\ stream = StreamIdle
    /\ ClientsIdle
    /\ AuxIdle

ManagerNext ==
    \/ \E p \in Callers : RegisterMint(p)
    \/ \E p \in Callers : RegisterSlabInsert(p)
    \/ \E p \in Callers : RegisterMapInsert(p)
    \/ \E p \in Callers : RegisterOpened(p)
    \/ \E p \in Callers : CallerActivate(p)
    \/ \E p \in Callers : UnregisterMapRemove(p)
    \/ \E p \in Callers : UnregisterSlabRemove(p)

ManagerSpec == ManagerInit /\ [][ManagerNext]_vars

\* The task that makes the register calls explored with the cleanup task.
RaceCallers == {1}

\* A register call of the task, while fewer than MaxRaceRegisters were made.
RaceRegisterMint(p) ==
    /\ Len(issued) < MaxRaceRegisters
    /\ RegisterMint(p)

\* The tasks of ManagerSpec with the cleanup task, the shutdown's marking
\* pass and record_traffic running alongside; the clock lets connections
\* grow idle.
ManagerRaceNext ==
    \/ \E p \in RaceCallers : RaceRegisterMint(p)
    \/ \E p \in RaceCallers : RegisterSlabInsert(p)
    \/ \E p \in RaceCallers : RegisterMapInsert(p)
    \/ \E p \in RaceCallers : RegisterOpened(p)
    \/ \E p \in RaceCallers : CallerActivate(p)
    \/ \E p \in RaceCallers : UnregisterMapRemove(p)
    \/ \E p \in RaceCallers : UnregisterSlabRemove(p)
    \/ CleanupCollect
    \/ \E id \in 1..MaxRaceRegisters : CleanupRemove(id)
    \/ CleanupRemoveSlab
    \/ \E id \in 1..MaxRaceRegisters, rx, tx \in 0..1 : RecordTraffic(id, rx, tx)
    \/ SignalShutdown
    \/ DrainMark
    \/ Tick

ManagerRaceSpec == ManagerInit /\ [][ManagerRaceNext]_vars

LockInit ==
    /\ ManagerNew(ConnectionSlots)
    /\ calls = <<>>
    /\ mcall = [p \in Callers |-> LockIdle]
    /\ issued = <<>>
    /\ conn = [c \in Clients |-> ClientNew]
    /\ srv = ServerNew
    /\ cleanup = CleanupNew
    /\ now = 0
    /\ metrics = MetricsNew
    /\ ProcsIdle
    /\ PoolIdle
    /\ stream = StreamIdle
    /\ ClientsIdle
    /\ AuxIdle

LockNext ==
    \/ \E p \in LockCallers, op \in LockOps, id \in 0..MaxRaceRegisters :
          BeginCall(p, op, id)
    \/ \E p \in LockCallers : CallSlabInsert(p)
    \/ \E p \in LockCallers : CallMapInsert(p)
    \/ \E p \in LockCallers : CallMapRemove(p)
    \/ \E p \in LockCallers : CallSlabRemove(p)
    \/ \E p \in LockCallers : CallMapGet(p)
    \/ \E p \in LockCallers : CallSlotLock(p)
    \/ \E p \in LockCallers : CallRelease(p)
    \/ \E p \in LockCallers : CallReturnGuard(p)
    \/ \E p \in LockCallers : GuardDrop(p)
    \/ \E p \in LockCallers, id \in 1..MaxRaceRegisters : IterVisit(p, id)
    \/ \E p \in LockCallers : IterEnd(p)

LockSpec == LockInit /\ [][LockNext]_vars

\* The clients whose connections LifecycleSpec follows.
Served == {1, 2}

\* The life of the connections without their streams and datagrams: accept
\* loop, connection tasks, idle cleanup and shutdown.
LifecycleNext ==
    \/ \E c \in Served : ListenerAccept(c)
    \/ \E c \in Served : HandshakeOk(c)
    \/ \E c \in Served : HandshakeErr(c)
    \/ \E c \in Served : Register(c)
    \/ \E c \in Served : Activate(c)
    \/ \E c \in Served : SubscribeShutdown(c)
    \/ \E c \in Served : ClientGone(c)
    \/ \E c \in Served : LoopBreak(c)
    \/ \E c \in Served : ShutdownRecv(c)
    \/ \E c \in Served : TaskUnregister(c)
    \/ SignalShutdown
    \/ DrainMark
    \/ DrainWaitEnd
    \/ EndpointClose
    \/ CleanupCollect
    \/ \E id \in 1..NumClients : CleanupRemove(id)
    \/ CleanupRemoveSlab
    \/ Tick

LifecycleSpec == ServerInit /\ [][LifecycleNext]_vars

\* The life of the connections with a task that records traffic through
\* the manager.
CleanupNext ==
    \/ LifecycleNext
    \/ \E id \in 1..NumClients, rx, tx \in 0..1 : RecordTraffic(id, rx, tx)

CleanupSpec == ServerInit /\ [][CleanupNext]_vars

\* Server::shutdown runs to its end once it has begun, and time passes:
\* the marking pass, the polls of drain (each after a sleep of 100 ms) and
\* the close of the endpoint are eventually taken.  Nothing is forced of
\* the clients, the connection tasks or the cleanup task.
LifecycleFair ==
    /\ WF_vars(DrainMark)
    /\ WF_vars(DrainWaitEnd)
    /\ WF_vars(EndpointClose)
    /\ WF_vars(Tick)

LifecycleLiveSpec == LifecycleSpec /\ LifecycleFair

\* The client whose connection ConnectionSpec follows.
Handled == {1}

\* One connection from the accept loop to the end of its task, with its
\* stream and datagram handlers and the shutdown signal.
ConnectionInit == ServerInit

ConnectionNext ==
    \/ \E c \in Handled : ListenerAccept(c)
    \/ \E c \in Handled : HandshakeOk(c)
    \/ \E c \in Handled : HandshakeErr(c)
    \/ \E c \in Handled : Register(c)
    \/ \E c \in Handled : Activate(c)
    \/ \E c \in Handled : SubscribeShutdown(c)
    \/ \E c \in Handled : AcceptBi(c)
    \/ \E c \in Handled, rx \in BOOLEAN : StreamRelay(c, rx)
    \/ \E c \in Handled : StreamHandlerEnd(c)
    \/ \E c \in Handled : StreamHandlerErr(c)
    \/ \E c \in Handled : ReadDatagram(c)
    \/ \E c \in Handled : DatagramRelayed(c)
    \/ \E c \in Handled : DatagramHandlerFail(c)
    \/ \E c \in Handled : ClientGone(c)
    \/ \E c \in Handled : LoopBreak(c)
    \/ \E c \in Handled : ReadDatagramErr(c)
    \/ \E c \in Handled : ShutdownRecv(c)
    \/ \E c \in Handled : TaskUnregister(c)
    \/ SignalShutdown

ConnectionSpec == ConnectionInit /\ [][ConnectionNext]_vars

\* The runtime keeps polling a connection task, and select! chooses fairly
\* among its ready branches: a step of the task that stays possible is
\* eventually taken.  What the client and the operator do is not forced.
ConnectionFair ==
    \A c \in Handled :
        /\ WF_vars(Register(c))
        /\ WF_vars(Activate(c))
        /\ WF_vars(SubscribeShutdown(c))
        /\ WF_vars(LoopBreak(c))
        /\ WF_vars(ShutdownRecv(c))
        /\ WF_vars(TaskUnregister(c))

ConnectionLiveSpec == ConnectionSpec /\ ConnectionFair

CodecInit ==
    /\ \E n \in HostLens, port \in CodecPorts, payload \in Payloads :
          codec = CodecNew(HostOf(n), port, payload)
    /\ http = HttpIdle
    /\ AuxIdle
    /\ SlabNew(0)
    /\ ProcsIdle
    /\ PoolIdle
    /\ metrics = MetricsNew
    /\ stream = StreamIdle
    /\ ServerIdle
    /\ CallersIdle

CodecNext ==
    \/ CodecEncodeTcp
    \/ CodecParseTcp
    \/ CodecEncodeUdp
    \/ CodecDecodeUdp
    \/ CodecParseUdp

CodecSpec == CodecInit /\ [][CodecNext]_vars


\* ------------------------------------------------------------------------
\* Properties of the slab (SlabSpec)
\* ------------------------------------------------------------------------

AtPc(label) == {p \in Procs : spc[p] = label}

\* C1: under any interleaving of insert and remove, two insert calls never
\* return the same handle unless a remove of that handle completed between
\* them: a slot index is named by at most one live handle.
C1_NoSharedHandle == \A i \in DOMAIN live : live[i] <= 1

\* Two handles are live while a remove is returning and an insert is running.
C1_Witness ==
    /\ \E i, j \in DOMAIN live : i # j /\ live[i] = 1 /\ live[j] = 1
    /\ AtPc("rm_sub") # {}
    /\ AtPc("ins_cas") # {}

\* C9 as stated: in every reachable state allocated equals the number of
\* occupied slots, which equals the number of cleared bits in [0, capacity).
C9_AllocatedEqualsOccupiedEveryState ==
    /\ allocated = Cardinality(OccupiedSlots)
    /\ Cardinality(OccupiedSlots) = Cardinality(ClearedBits)

\* C9 amended: the three counts differ exactly by the calls in flight, and
\* are equal whenever no insert or remove is in progress.
C9_AllocatedEqualsOccupiedUpToInFlight ==
    LET occupied == Cardinality(OccupiedSlots)
        cleared == Cardinality(ClearedBits)
        freeing == Cardinality(AtPc("rm_or"))
    IN  /\ cleared = occupied + Cardinality(AtPc("ins_lock")) + freeing
        /\ allocated + Cardinality(AtPc("ins_add")) =
              occupied + freeing + Cardinality(AtPc("rm_sub"))
        /\ (\A p \in Procs : spc[p] = "idle") =>
              /\ allocated = occupied
              /\ occupied = cleared

\* No call is in progress, slots are occupied and a slot was freed again.
C9_Witness ==
    /\ \A p \in Procs : spc[p] = "idle"
    /\ allocated = 2
    /\ \E i \in 0..(capacity - 1) : slots[i] = None /\ i < Max(OccupiedSlots)

\* C10: for every capacity c (also one that is not a multiple of the word
\* width) an insert that runs without interference returns None exactly when
\* all c slots are occupied, and then leaves the slab unchanged; no insert
\* returns an index >= c; bits of the bitset at positions >= c are always 0.
C10_CapacityRespected ==
    /\ SetBitsBeyondCapacity = {}
    /\ \A p \in Procs :
          /\ spc[p] \in {"ins_cas", "ins_lock", "ins_add"} =>
                sloc[p].slot_idx < capacity
          /\ (spc[p] = "ins_none" /\ sloc[p].entry.solo) =>
                /\ sloc[p].entry.occ0 = capacity
                /\ sloc[p].entry.snap = <<free_bitset, slots, allocated>>
          /\ (spc[p] = "ins_add" /\ sloc[p].entry.solo) =>
                sloc[p].entry.occ0 < capacity

\* An undisturbed insert reports full on a slab whose capacity is not a
\* multiple of the word width and spans two words.
C10_Witness ==
    /\ capacity % WordBits # 0
    /\ NumWords(capacity) > 1
    /\ \E p \in Procs : spc[p] = "ins_none" /\ sloc[p].entry.solo


\* ------------------------------------------------------------------------
\* Properties of the buffer pool (PoolSpec)
\* ------------------------------------------------------------------------

\* C2: for each tier, after any sequence of acquire, acquire_or_alloc and
\* Buffer drops, in_use + free_queue_len + outstanding_overflow == allocated,
\* where outstanding_overflow counts the live buffers acquire_or_alloc
\* produced by fresh allocation.
C2_PoolAccounting ==
    \A t \in Tiers :
        in_use[t] + Len(queue[t]) + OutstandingOverflow(t) = pool_allocated[t]

\* A step that drops a Buffer handle.
DropStep == BagCardinality(held') < BagCardinality(held)

\* C15: dropping any Buffer, whether it came from acquire or from
\* acquire_or_alloc, increases the free-queue length of the buffer's own
\* tier by exactly one and leaves the queues of the other tiers unchanged.
C15_DropEnqueues ==
    [][DropStep =>
         /\ Len(queue'[pool_last'.size]) = Len(queue[pool_last'.size]) + 1
         /\ \A t \in Tiers \ {pool_last'.size} : queue'[t] = queue[t]]_vars

\* C16: acquire(size) returns None exactly when the tier's queue is empty;
\* otherwise it takes one buffer of the tier's capacity from the queue and
\* raises the tier's in_use by one; dropping a buffer acquire returned lowers
\* in_use by one; acquire_or_alloc(size) always returns a buffer of the
\* requested tier.
C16_AcquireContract ==
    /\ pool_last.op = "acquire" =>
          (pool_last.res = "None" <=> pool_last.qlen0 = 0)
    /\ (pool_last.op = "acquire" /\ pool_last.res = "Some") =>
          /\ pool_last.len = AsUsize(pool_last.size)
          /\ Len(queue[pool_last.size]) = pool_last.qlen0 - 1
          /\ in_use[pool_last.size] = pool_last.in_use0 + 1
    /\ (pool_last.op = "drop" /\ pool_last.res = "Pooled") =>
          in_use[pool_last.size] = pool_last.in_use0 - 1
    /\ pool_last.op = "acquire_or_alloc" =>
          /\ pool_last.res \in {"Pooled", "Fresh"}
          /\ pool_last.len = AsUsize(pool_last.size)

\* ------------------------------------------------------------------------
\* Properties of the stream handler (StreamSpec)
\* ------------------------------------------------------------------------

StreamAllowed == IsAllowed(stream.policy, stream.host, stream.port)

\* C4: the handler writes exactly one status byte before any relayed data:
\* 0x00 only when the request type is 0x01, the policy allows (host, port)
\* and the dial has succeeded; 0xFF when the policy denies, the dial fails
\* or the type is unknown (and no dial is made for an unknown type).
C4_StatusByte ==
    /\ \A i \in 1..Len(stream.sent) :
          (stream.sent[i] \in {STATUS_OK, STATUS_ERROR}) <=> (i = 1)
    /\ (stream.sent # <<>> /\ Head(stream.sent) = STATUS_OK) =>
          /\ stream.request_type = TCP_CONNECT
          /\ StreamAllowed
          /\ stream.dials # <<>> /\ stream.target_up
    /\ (stream.sent # <<>> /\ (stream.request_type # TCP_CONNECT
                                 \/ ~StreamAllowed \/ ~stream.target_up)) =>
          Head(stream.sent) = STATUS_ERROR
    /\ stream.request_type # TCP_CONNECT => stream.dials = <<>>

\* C5: the routing policy is consulted exactly once for every TCP_CONNECT
\* request before any dial, and a request the policy denies never causes an
\* outbound TCP connection to the target.
C5_PolicyBeforeDial ==
    stream.dials # <<>> =>
        /\ stream.policy_consults = 1
        /\ StreamAllowed


\* ------------------------------------------------------------------------
\* Properties of the server (ServerSpec)
\* ------------------------------------------------------------------------

\* The ConnectionState registered under id, if any (ConnectionManager::get).
Get(id) ==
    IF id \in DOMAIN id_to_handle THEN SlabGet(id_to_handle[id]) ELSE None

\* C3: for every connection, under any interleaving of register, activate,
\* drain and unregister, the phase only moves forward along
\* Connecting -> Active -> Draining -> Closed: no step takes the state of a
\* connection to a phase that comes earlier than the one it had.
C3_PhaseOnlyForward ==
    [][\A i \in DOMAIN slots :
          (/\ IsSome(slots[i])
           /\ IsSome(slots'[i])
           /\ Unwrap(slots[i]).id = Unwrap(slots'[i]).id)
          => PhaseRank(Unwrap(slots'[i]).phase) >=
             PhaseRank(Unwrap(slots[i]).phase)]_vars

\* C6: after signal_shutdown, every per-connection task observes the
\* shutdown: a task waiting in its select loop once the signal has been sent
\* has the signal ready on its receiver, whenever it subscribed; a task that
\* took the signal has closed its connection, and is unregistered when it
\* is done.
C6_ShutdownObserved ==
    \A c \in Clients :
        /\ (srv.shutdown_sent /\ conn[c].pc = "select")
               => conn[c].shutdown_rx = "ready"
        /\ conn[c].shutdown_rx = "taken" => conn[c].quic = "closed"
        /\ (conn[c].shutdown_rx = "taken" /\ conn[c].pc = "done")
               => Get(Unwrap(conn[c].conn_id)) = None

\* The clients refused because the slab was at capacity: by the accept loop
\* or by register returning None.
RefusedAtCapacity == {c \in Clients : conn[c].pc \in {"dropped", "rejected"}}

\* C7: every connection refused because the slab is at capacity is closed
\* with code 1 and message 'server at capacity' and is counted in
\* connections_failed (which otherwise counts the failed handshakes only).
C7_RefusedAtCapacity ==
    /\ \A c \in RefusedAtCapacity :
          conn[c].close = Some(ApplicationClose(1, "server at capacity"))
    /\ metrics.connections_failed =
          Cardinality(RefusedAtCapacity) +
          Cardinality({c \in Clients : conn[c].pc = "failed"})

\* The client whose task registered id.
Owner(id) == CHOOSE c \in Clients : conn[c].conn_id = Some(id)

\* C8: a connection on which bytes are relayed at intervals shorter than
\* idle_timeout has its last_active refreshed by that traffic (its idle
\* duration never exceeds the time since its last bytes) and is never
\* collected for removal by cleanup_idle.
C8_TrafficKeepsAlive ==
    /\ [](\A id \in DOMAIN id_to_handle :
             (IsSome(Get(id)) /\ conn[Owner(id)].gap < IdleTimeout)
                => IdleDuration(Unwrap(Get(id))) <= conn[Owner(id)].gap)
    /\ [][\A id \in cleanup'.to_remove \ cleanup.to_remove :
             conn[Owner(id)].gap >= IdleTimeout]_vars


\* ------------------------------------------------------------------------
\* Properties of the slab called sequentially (SlabCallSpec)
\* ------------------------------------------------------------------------

\* What the first n calls of the log leave in slot idx, going by what the
\* calls returned: the value of the last insert that returned idx, unless
\* remove(idx) was called after it.
RECURSIVE ContentsAfter(_, _)
ContentsAfter(n, idx) ==
    IF n = 0
    THEN None
    ELSE IF calls[n].op = "insert" /\ calls[n].res = Some(idx)
         THEN Some(calls[n].value)
         ELSE IF calls[n].op = "remove" /\ calls[n].idx = idx
              THEN None
              ELSE ContentsAfter(n - 1, idx)

\* Calls j < k of the log with no insert strictly between them.
NoInsertBetween(j, k) ==
    \A m \in (j + 1)..(k - 1) : calls[m].op # "insert"

\* Call j removed the occupied slot h.
RemovedAt(j, h) ==
    calls[j].op = "remove" /\ calls[j].idx = h /\ IsSome(calls[j].res)

\* Call k is an insert that returned the handle h.
InsertedAt(k, h) == calls[k].op = "insert" /\ calls[k].res = Some(h)

\* C11 as stated: after h = insert(v); remove(h); h' = insert(v') with no
\* other insert in between, h'.index == h.index.
C11_ReuseSameIndex ==
    \A i, j, k \in DOMAIN calls : \A h, h2 \in 0..MaxCapacity :
        (/\ i < j /\ j < k
         /\ InsertedAt(i, h) /\ RemovedAt(j, h) /\ InsertedAt(k, h2)
         /\ NoInsertBetween(i, k))
        => h2 = h

\* C11, amended: after remove(h), the next insert h' = insert(v') returns
\* the lowest free index: h'.index <= h.index, with equality exactly when
\* every slot below h.index is occupied at that moment; when insert(v),
\* remove(h) and insert(v') follow each other directly, h'.index == h.index.
C11_ReuseLowestFree ==
    \A j, k \in DOMAIN calls : \A h, h2 \in 0..MaxCapacity :
        (/\ j < k
         /\ RemovedAt(j, h) /\ InsertedAt(k, h2)
         /\ NoInsertBetween(j, k))
        => /\ h2 <= h
           /\ h2 = h <=> \A low \in 0..(h - 1) : IsSome(ContentsAfter(k - 1, low))
           /\ (j > 1 /\ k = j + 1 /\ InsertedAt(j - 1, h)) => h2 = h

\* A slot other than the first is inserted into, removed and inserted into
\* again, in three calls that follow each other.
C11_Witness ==
    \E k \in DOMAIN calls : \E h \in 1..MaxCapacity :
        /\ k > 2
        /\ InsertedAt(k - 2, h) /\ RemovedAt(k - 1, h) /\ InsertedAt(k, h)

\* C12: for a handle h returned by insert(v), get(h) yields v until
\* remove(h) is called, remove(h) returns Some(v), and get(h) then yields
\* None until the slot is inserted into again; the values under the other
\* handles are unaffected.
C12_GetRemove ==
    /\ \A idx \in 0..MaxCapacity : SlabGet(idx) = ContentsAfter(Len(calls), idx)
    /\ \A k \in DOMAIN calls :
          calls[k].op = "remove"
             => calls[k].res = ContentsAfter(k - 1, calls[k].idx)

\* Two handles hold different values; the first is removed and returns its
\* value, the second still yields its own.
C12_Witness ==
    \E i, j \in DOMAIN calls : \E h, h2 \in 0..MaxCapacity :
        /\ i < j /\ j < Len(calls)
        /\ InsertedAt(i, h) /\ InsertedAt(j, h2)
        /\ calls[i].value # calls[j].value
        /\ RemovedAt(Len(calls), h)
        /\ calls[Len(calls)].res = Some(calls[i].value)
        /\ SlabGet(h) = None
        /\ SlabGet(h2) = Some(calls[j].value)

\* A caller between the slab insert of its register and the slab remove of
\* its unregister.
Holding(p) ==
    mcall[p].pc \in {"reg_map", "reg_opened", "registered", "active",
                     "unreg_slab"}

\* C13: the ids register mints start at 1 and are strictly increasing in
\* the order of the calls, a call that fails on a full slab included; the
\* ids concurrent callers hold are pairwise distinct, and every id register
\* returned is one of the minted ids.
C13_IdsIncrease ==
    /\ issued # <<>> => issued[1].id = 1
    /\ \A i, j \in DOMAIN issued : i < j => issued[i].id < issued[j].id
    /\ \A p, q \in Callers :
          (p # q /\ mcall[p].pc # "idle" /\ mcall[q].pc # "idle")
             => mcall[p].id # mcall[q].id
    /\ \A id \in DOMAIN id_to_handle : \E i \in DOMAIN issued : issued[i].id = id

\* A register that failed on the full slab, then a later register that
\* succeeded with a larger id, while another caller holds its own id.
C13_Witness ==
    \E i, j \in DOMAIN issued :
        /\ i < j
        /\ issued[i].returned /\ issued[i].handle = None
        /\ issued[j].returned /\ IsSome(issued[j].handle)
        /\ issued[j].id > issued[i].id
        /\ issued[j].id \in DOMAIN id_to_handle
        /\ \E p, q \in Callers : p # q /\ Holding(p) /\ mcall[q].pc = "reg_insert"

\* C14: connection_count is the number of callers between a successful
\* register and the end of their unregister, so a register raises it by one
\* and the unregister restores it; get(id) finds the state exactly between
\* the two calls, Active once activate(id) ran, and None after unregister;
\* a slot freed by unregister is available to the next insert.
C14_RegisterUnregister ==
    /\ ConnectionCount = Cardinality({p \in Callers : Holding(p)})
    /\ DOMAIN id_to_handle =
          {mcall[p].id : p \in {q \in Callers :
                                   mcall[q].pc \in {"reg_opened", "registered",
                                                    "active"}}}
    /\ \A p \in Callers :
          mcall[p].pc \in {"registered", "active"} =>
             /\ IsSome(Get(mcall[p].id))
             /\ Unwrap(Get(mcall[p].id)).id = mcall[p].id
             /\ Unwrap(Get(mcall[p].id)).phase =
                   IF mcall[p].pc = "active" THEN "Active" ELSE "Connecting"
    /\ \A i \in DOMAIN issued :
          (issued[i].returned
             /\ \A p \in Callers : Holding(p) => mcall[p].id # issued[i].id)
             => Get(issued[i].id) = None
    /\ ConnectionCount < capacity => IsSome(InsertScan(0))

\* A connection was registered and unregistered, and a later register
\* reused its slot; that later connection is registered and activated.
C14_Witness ==
    \E i, j \in DOMAIN issued :
        /\ i < j
        /\ IsSome(issued[i].handle)
        /\ issued[j].handle = issued[i].handle
        /\ Get(issued[i].id) = None
        /\ \E p \in Callers : mcall[p].pc = "active" /\ mcall[p].id = issued[j].id
        /\ ConnectionCount = 1

\* ------------------------------------------------------------------------
\* Properties of the wire formats (CodecSpec)
\* ------------------------------------------------------------------------

\* C17: decode_udp_packet(encode_udp_packet(host, port, payload)) returns
\* exactly (host, port, payload) for every host of 0 to 255 bytes, every
\* port and every payload, the empty one included; the server's datagram
\* parser accepts the same encodings; a 256-byte host is rejected by the
\* encoder.
C17_UdpRoundTrip ==
    codec.op = "udp" =>
       /\ codec.pc = "rejected" <=> Len(codec.host) > MaxHostBytes
       /\ codec.pc \in {"udp_decoded", "udp_parsed"} =>
             codec.decoded = Some([host |-> codec.host, port |-> codec.port,
                                   payload |-> codec.payload])
       /\ codec.pc = "udp_parsed" =>
             codec.parsed = Some([host |-> codec.host, port |-> codec.port,
                                  payload |-> codec.payload])

\* C18: for every host of 0 to 255 bytes and every port, the server's
\* stream handler parses the bytes of encode_tcp_request(host, port) back
\* into type 0x01 and the same (host, port), consuming exactly
\* 4 + len(host) bytes of the stream; a 256-byte host is rejected by the
\* encoder.
C18_TcpRoundTrip ==
    codec.op = "tcp" =>
       /\ codec.pc = "rejected" <=> Len(codec.host) > MaxHostBytes
       /\ codec.pc = "tcp_parsed" =>
             codec.parsed = Some([request_type |-> TCP_CONNECT,
                                  port |-> codec.port, host |-> codec.host,
                                  consumed |-> 4 + Len(codec.host)])

\* The request for a 255-byte host and a port with two different bytes,
\* followed on the stream by data bytes, has been parsed by the server.
C18_Witness ==
    /\ codec.pc = "tcp_parsed"
    /\ Len(codec.host) = MaxHostBytes
    /\ codec.port = 80
    /\ codec.payload # <<>>
    /\ IsSome(codec.parsed)

\* ------------------------------------------------------------------------
\* Properties of the per-connection dispatch loop (ConnectionSpec)
\* ------------------------------------------------------------------------

\* C19: a failure inside a stream handler or a datagram handler never ends
\* the per-connection dispatch loop, never closes the connection and never
\* unregisters it; the loop ends only on a closed connection (peer close,
\* transport error) or on the shutdown signal, and the connection is
\* unregistered only by its task after the loop ended.
C19_HandlerFailureContained ==
    /\ [][\A c \in Clients :
            conn'[c].failed > conn[c].failed =>
               /\ conn'[c].pc = conn[c].pc
               /\ conn'[c].quic = conn[c].quic
               /\ id_to_handle' = id_to_handle
               /\ slots' = slots]_vars
    /\ [][\A c \in Clients :
            (conn[c].pc = "select" /\ conn'[c].pc # "select") =>
               (conn[c].quic = "closed" \/ conn[c].shutdown_rx = "ready")]_vars
    /\ [][\A id \in DOMAIN id_to_handle \ DOMAIN id_to_handle' :
            conn[Owner(id)].pc = "unregister"]_vars

\* After a stream handler and a datagram handler of a connection failed,
\* the connection is registered and open, its task is in the dispatch loop
\* and a later datagram was relayed.
C19_Witness ==
    \E c \in Clients :
        /\ conn[c].failed >= 2
        /\ metrics.streams_closed >= 1
        /\ metrics.datagrams_sent >= 1
        /\ conn[c].pc = "select"
        /\ conn[c].quic = "open"
        /\ IsSome(conn[c].conn_id)
        /\ IsSome(Get(Unwrap(conn[c].conn_id)))

\* ------------------------------------------------------------------------
\* Properties of the HTTP CONNECT tunnel (TunnelSpec)
\* ------------------------------------------------------------------------

\* C20: for a CONNECT whose target the policy allows but the server cannot
\* dial, the client's HTTP proxy answers 502 and not 200; 200 is sent only
\* after the server reported success for a dial that succeeded.
C20_BadGatewayOnDialFailure ==
    /\ (StreamAllowed /\ ~stream.target_up) =>
          \A i \in DOMAIN http.responses : http.responses[i] = HTTP_BAD_GATEWAY
    /\ (\E i \in DOMAIN http.responses : http.responses[i] = HTTP_OK) =>
          /\ stream.sent # <<>> /\ Head(stream.sent) = STATUS_OK
          /\ stream.dials # <<>>
          /\ stream.target_up

\* ------------------------------------------------------------------------
\* Properties of the routing policy (PolicySpec)
\* ------------------------------------------------------------------------

\* C21: decide returns Deny "Host is blocked" if the host is in
\* blocked_hosts; else Deny "Port is blocked" if the port is in
\* blocked_ports; else Deny if allowed_ports is non-empty and lacks the
\* port; else Allow if default_allow, else Deny.  It leaves the policy as
\* it was, identical inputs give identical decisions, and the default
\* policy allows every request.
C21_DecideTable ==
    /\ [](\A i \in DOMAIN route.decisions :
            LET d == route.decisions[i]
                p == route.policy
            IN  /\ route.target_host \in p.blocked_hosts
                      => d = [kind |-> "Deny", reason |-> "Host is blocked"]
                /\ (route.target_host \notin p.blocked_hosts
                      /\ route.target_port \in p.blocked_ports)
                      => d = [kind |-> "Deny", reason |-> "Port is blocked"]
                /\ (route.target_host \notin p.blocked_hosts
                      /\ route.target_port \notin p.blocked_ports
                      /\ p.allowed_ports # {}
                      /\ route.target_port \notin p.allowed_ports)
                      => d.kind = "Deny"
                /\ (route.target_host \notin p.blocked_hosts
                      /\ route.target_port \notin p.blocked_ports
                      /\ (p.allowed_ports = {}
                            \/ route.target_port \in p.allowed_ports))
                      => d.kind = (IF p.default_allow THEN "Allow" ELSE "Deny")
                /\ p = DefaultPolicy => d.kind = "Allow"
                /\ d = route.decisions[1])
    /\ [][route'.policy = route.policy]_vars

\* decide was called twice on a request whose host and port are both
\* blocked, and twice returned Deny "Host is blocked".
C21_Witness ==
    /\ Len(route.decisions) = 2
    /\ route.target_host \in route.policy.blocked_hosts
    /\ route.target_port \in route.policy.blocked_ports
    /\ route.decisions[2] = Deny("Host is blocked")

\* ------------------------------------------------------------------------
\* Properties of the metrics (MetricsSpec)
\* ------------------------------------------------------------------------

\* C22: of two snapshot() calls made one after the other on one thread,
\* with any concurrent counter updates by other tasks, every field of the
\* later snapshot is >= the same field of the earlier one, except
\* connections_active.
C22_SnapshotsMonotone ==
    \A i, j \in DOMAIN snaps.taken :
        i < j =>
           \A k \in DOMAIN SnapshotFields :
               SnapshotFields[k] # "connections_active" =>
                  snaps.taken[j][SnapshotFields[k]]
                     >= snaps.taken[i][SnapshotFields[k]]

\* Two snapshots were taken while other tasks updated the counters: a
\* connection closed between them (connections_active went down) and
\* another counter went up.
C22_Witness ==
    /\ Len(snaps.taken) = 2
    /\ snaps.taken[2].connections_active < snaps.taken[1].connections_active
    /\ \E k \in DOMAIN SnapshotFields :
          snaps.taken[2][SnapshotFields[k]] > snaps.taken[1][SnapshotFields[k]]

\* ------------------------------------------------------------------------
\* Properties of the UDP socket pool (SocketPoolSpec)
\* ------------------------------------------------------------------------

\* The call before call i that was made for the same target, or 0.
PreviousCall(i) ==
    LET before == {j \in 1..(i - 1) :
                      sockets.calls[j].target = sockets.calls[i].target}
    IN  IF before = {} THEN 0
        ELSE CHOOSE j \in before : \A k \in before : k <= j

\* C23: get_or_create(target) returns the cached socket when the entry of
\* target is younger than SOCKET_TTL and refreshes its last_used, so a
\* target used again less than SOCKET_TTL after its last use gets the same
\* socket as at that last use; two consecutive calls for one target return
\* the same socket.
C23_ReuseWithinTtl ==
    \A i \in DOMAIN sockets.calls :
        LET j == PreviousCall(i)
        IN  (/\ j # 0
             /\ sockets.calls[j].socket # None
             /\ sockets.calls[i].at - sockets.calls[j].at < SocketTtl)
            => sockets.calls[i].socket = sockets.calls[j].socket

\* ------------------------------------------------------------------------
\* Properties of the bidirectional pump (StreamSpec, StreamTaskSpec)
\* ------------------------------------------------------------------------

\* C24: when the QUIC-to-TCP direction of the pump ends, the TCP write half
\* is shut down, and when the TCP-to-QUIC direction ends, finish() is
\* called on the QUIC send side; in each case the other direction keeps
\* running until its own EOF or error.
C24_HalfClose ==
    /\ [][(~stream.quic_closed /\ stream'.quic_closed)
             => (/\ stream'.c2t = "done"
                 /\ stream'.tcp_shutdown
                 /\ stream'.t2c = stream.t2c)]_vars
    /\ [][(stream.t2c = "running" /\ stream'.t2c = "done")
             => (stream'.finished /\ stream'.c2t = stream.c2t)]_vars

\* C25: after the QUIC side of a stream is closed, the stream's handler
\* eventually finishes and bumps streams_closed, whatever the target does,
\* so streams_closed eventually equals streams_opened.
C25_HandlerFinishes ==
    stream.quic_closed ~> (metrics.streams_closed = metrics.streams_opened)

\* ------------------------------------------------------------------------
\* Properties of the end of a connection (ConnectionLiveSpec)
\* ------------------------------------------------------------------------

\* C26: after the QUIC connection of a registered client is lost, the
\* dispatch loop of its task eventually exits and the connection is
\* unregistered, select choosing fairly among its ready branches; a
\* read_datagram error other than ApplicationClosed does not end the loop.
C26_LostConnectionEnds ==
    /\ \A c \in Handled :
          (conn[c].quic = "closed" /\ IsSome(conn[c].conn_id))
             ~> (conn[c].pc = "done" /\ ~IsSome(Get(Unwrap(conn[c].conn_id))))
    /\ [][\A c \in Handled :
             conn'[c].turn # conn[c].turn =>
                /\ conn'[c].pc = "select"
                /\ id_to_handle' = id_to_handle]_vars

\* The connection was lost, a turn of the loop ended in a datagram receive
\* error, and the task has since left the loop and unregistered.
C26_Witness ==
    \E c \in Handled :
        /\ conn[c].close = Some(ConnectionLost)
        /\ conn[c].turn = 1
        /\ conn[c].pc = "done"
        /\ IsSome(conn[c].conn_id)
        /\ ~IsSome(Get(Unwrap(conn[c].conn_id)))

\* ------------------------------------------------------------------------
\* Properties of the life of the connections (LifecycleSpec)
\* ------------------------------------------------------------------------

\* Every connection task that was spawned has ended.
AllTasksEnded ==
    \A c \in Clients :
        conn[c].pc \in {"incoming", "dropped", "failed", "rejected", "done"}

\* C27: every connection task that registered an id calls unregister(id)
\* when its dispatch loop exits, so once all connection tasks have ended
\* connection_count is 0 and the id map is empty.
C27_NoneLeftAfterTasks ==
    AllTasksEnded => (ConnectionCount = 0 /\ DOMAIN id_to_handle = {})

\* C27, amended: ... once all connection tasks have ended the id map is
\* empty, and connection_count is 0 as soon as no unregister call of
\* cleanup_idle is between its map removal and its slab removal; a task
\* leaves its dispatch loop for unregister only.
C27_NoneLeftAfterTasksAndCleanup ==
    /\ [](AllTasksEnded =>
             /\ DOMAIN id_to_handle = {}
             /\ cleanup.handle = None => ConnectionCount = 0
             /\ cleanup.handle # None => ConnectionCount <= 1)
    /\ [][\A c \in Clients :
             (conn[c].pc = "select" /\ conn'[c].pc # "select")
                => conn'[c].pc = "unregister"]_vars
    /\ [][\A c \in Clients :
             (conn[c].pc = "unregister" /\ conn'[c].pc # "unregister")
                => /\ conn'[c].pc = "done"
                   /\ Unwrap(conn[c].conn_id) \notin DOMAIN id_to_handle']_vars

\* A connection was registered, cleanup_idle began to unregister it, its
\* task ended meanwhile, and cleanup_idle has finished: nothing is left.
C27_Witness ==
    /\ AllTasksEnded
    /\ \E c \in Clients : conn[c].pc = "done"
    /\ metrics.connections_total >= 1
    /\ cleanup.pc = "idle"
    /\ ConnectionCount = 0
    /\ DOMAIN id_to_handle = {}
    /\ now > IdleTimeout

\* C28: when the QUIC handshake of an incoming connection fails, its task
\* increments connections_failed by exactly one and exits without
\* registering: no ConnectionId is minted, and connection_count,
\* connections_total and connections_active are unchanged.
C28_HandshakeFailure ==
    [][\A c \in Clients :
          (conn[c].pc = "handshake" /\ conn'[c].pc # "handshake"
              /\ conn'[c].pc # "register")
             => /\ conn'[c].pc = "failed"
                /\ conn'[c].conn_id = None
                /\ metrics' = [metrics EXCEPT !.connections_failed = @ + 1]
                /\ next_id' = next_id
                /\ id_to_handle' = id_to_handle
                /\ allocated' = allocated
                /\ slots' = slots]_vars

\* The handshake of one client failed while another connection was
\* registered: one failure counted, one connection counted.
C28_Witness ==
    /\ \E c \in Clients : conn[c].pc = "failed" /\ conn[c].conn_id = None
    /\ metrics.connections_failed = 1
    /\ metrics.connections_total = 1
    /\ metrics.connections_active = 1
    /\ ConnectionCount = 1
    /\ next_id = 2

\* C29: drain(timeout) first sets the phase of every connection registered
\* at that moment to Draining, then returns as soon as a poll finds
\* connection_count = 0 or the deadline has passed; it always terminates
\* (checked for every drain whose deadline lies within the explored clock),
\* and it never unregisters or closes a connection itself.
C29_Drain ==
    /\ [][(srv.pc = "drain" /\ srv'.pc # "drain")
             => /\ srv'.pc = "drain_wait"
                /\ \A id \in DOMAIN id_to_handle :
                      /\ IsSome(slots'[id_to_handle[id]])
                      /\ Unwrap(slots'[id_to_handle[id]]).phase = "Draining"]_vars
    /\ [][(srv.pc = "drain_wait" /\ srv'.pc # "drain_wait")
             => /\ srv'.pc = "close"
                /\ \/ ConnectionCount = 0
                   \/ now - srv.drain_start >= DrainTimeout]_vars
    /\ [][(srv.pc \in {"drain", "drain_wait"} /\ srv' # srv)
             => /\ id_to_handle' = id_to_handle
                /\ allocated' = allocated
                /\ free_bitset' = free_bitset
                /\ \A i \in DOMAIN slots : IsSome(slots'[i]) = IsSome(slots[i])
                /\ \A c \in Clients : conn'[c].quic = conn[c].quic
                /\ metrics' = metrics]_vars
    /\ (srv.pc = "drain") ~> (srv.pc = "drain_wait")
    /\ (srv.pc = "drain_wait" /\ srv.drain_start + DrainTimeout <= MaxTime)
          ~> (srv.pc \in {"close", "stopped"})

\* drain returned at its deadline: a connection it marked Draining is still
\* registered and open.
C29_Witness ==
    /\ srv.pc = "close"
    /\ ConnectionCount = 1
    /\ \E c \in Clients :
          /\ conn[c].quic = "open"
          /\ IsSome(conn[c].conn_id)
          /\ IsSome(Get(Unwrap(conn[c].conn_id)))
          /\ Unwrap(Get(Unwrap(conn[c].conn_id))).phase = "Draining"

\* C30: cleanup_idle unregisters exactly the connections whose
\* idle_duration exceeds idle_timeout and leaves every other connection
\* registered, also when record_traffic or activate touches a connection
\* between the collection pass and the removal pass: a connection that
\* cleanup_idle unregisters is idle for more than idle_timeout at that
\* moment.
C30_OnlyIdleUnregistered ==
    [][\A id \in DOMAIN id_to_handle :
          (/\ cleanup' # cleanup
           /\ id \notin DOMAIN id_to_handle'
           /\ IsSome(SlabGet(id_to_handle[id])))
             => IdleDuration(Unwrap(SlabGet(id_to_handle[id]))) > IdleTimeout]_vars

\* ------------------------------------------------------------------------
\* Properties of the datagram handlers (ConnectionSpec, RelaySpec)
\* ------------------------------------------------------------------------

\* C31: every datagram that its handler drops because of an error (header
\* parse failure, UDP response timeout, relay or send failure) increments
\* errors_total or timeouts_total, and produces no response datagram.
C31_DropsAreCounted ==
    [][\A c \in Handled :
          (/\ conn'[c].datagrams < conn[c].datagrams
           /\ conn'[c].failed > conn[c].failed)
             => /\ metrics'.datagrams_sent = metrics.datagrams_sent
                /\ metrics'.errors_total + metrics'.timeouts_total
                      = metrics.errors_total + metrics.timeouts_total + 1]_vars

\* C32: each received datagram produces at most one response datagram,
\* which carries the port and host bytes of the request followed by the
\* relay's response payload; datagrams_sent never exceeds
\* datagrams_received, and datagrams_sent counts only the responses handed
\* to the QUIC connection.
C32_ResponsesMatchRequests ==
    /\ \A j, k \in DOMAIN sockets.sent :
          sockets.sent[j].of = sockets.sent[k].of => j = k
    /\ \A j \in DOMAIN sockets.sent :
          LET data == sockets.handlers[sockets.sent[j].of].data
              bytes == sockets.sent[j].bytes
              host_len == data[3]
          IN  /\ Len(bytes) >= 3 + host_len
              /\ SubSeq(bytes, 1, 3 + host_len) = SubSeq(data, 1, 3 + host_len)
              /\ Rest(bytes, 4 + host_len) \in Answers
    /\ metrics.datagrams_sent <= metrics.datagrams_received
    /\ metrics.datagrams_sent = Len(sockets.sent)

\* C33: two datagrams relayed to the same target within SOCKET_TTL of each
\* other are sent from the same pooled egress socket (every datagram
\* explored is relayed within SOCKET_TTL of the others).
C33_SameTargetSameSocket ==
    \A j, k \in DOMAIN sockets.egress :
        sockets.egress[j].target = sockets.egress[k].target
           => sockets.egress[j].socket = sockets.egress[k].socket

\* ------------------------------------------------------------------------
\* Properties of the stream counters (ConnectionSpec)
\* ------------------------------------------------------------------------

\* The stream handler tasks that were spawned and have not returned.
RECURSIVE RunningStreamHandlers(_)
RunningStreamHandlers(cs) ==
    IF cs = {} THEN 0
    ELSE LET c == CHOOSE x \in cs : TRUE
         IN  conn[c].streams + RunningStreamHandlers(cs \ {c})

\* C34: each accepted bidirectional stream adds exactly one to
\* streams_opened, and the end of its handler, with success or with error,
\* adds exactly one to streams_closed; streams_closed <= streams_opened in
\* every reachable state and their difference is the number of stream
\* handlers still running.
C34_StreamCounters ==
    /\ [](/\ metrics.streams_closed <= metrics.streams_opened
          /\ metrics.streams_opened - metrics.streams_closed
                = RunningStreamHandlers(Clients))
    /\ [][\A c \in Clients :
             /\ conn'[c].streams = conn[c].streams + 1
                   => /\ metrics'.streams_opened = metrics.streams_opened + 1
                      /\ metrics'.streams_closed = metrics.streams_closed
             /\ conn'[c].streams = conn[c].streams - 1
                   => /\ metrics'.streams_closed = metrics.streams_closed + 1
                      /\ metrics'.streams_opened = metrics.streams_opened]_vars

\* A stream handler has failed and is counted closed.
C34_Witness ==
    \E c \in Handled :
        /\ conn[c].failed > 0
        /\ metrics.streams_opened = 1
        /\ metrics.streams_closed = 1
        /\ conn[c].streams = 0

\* ------------------------------------------------------------------------
\* Properties of the pool's statistics (PoolSpec)
\* ------------------------------------------------------------------------

\* C35: for each tier, after any sequence of acquire, acquire_or_alloc and
\* Buffer drops, the reported in_use satisfies 0 <= in_use <= allocated
\* (the unsigned counter never wraps below zero), and the free queue never
\* holds more buffers than the tier's configured count.
C35_InUseWithinAllocated ==
    \A t \in Tiers :
        /\ 0 <= in_use[t]
        /\ in_use[t] <= pool_allocated[t]
        /\ Len(queue[t]) <= queue_cap[t]

\* ------------------------------------------------------------------------
\* Properties of the manager under concurrent calls (ManagerRaceSpec)
\* ------------------------------------------------------------------------

\* C36: under concurrent register, unregister, activate, record_traffic,
\* cleanup_idle and drain, every entry (id -> handle) of the lookup map
\* points at an occupied slab slot whose ConnectionState.id equals id; no
\* entry refers to a freed slot or to a slot reused by another connection.
C36_MapEntriesPointAtOwnSlot ==
    \A id \in DOMAIN id_to_handle :
        /\ IsSome(SlabGet(id_to_handle[id]))
        /\ Unwrap(SlabGet(id_to_handle[id])).id = id

\* The slot of the first connection holds a later one, which is in the map,
\* has recorded traffic and is marked Draining, while cleanup_idle is in
\* its removal loop.
C36_Witness ==
    \E id \in DOMAIN id_to_handle :
        /\ id > 1
        /\ id_to_handle[id] = 0
        /\ Unwrap(SlabGet(0)).phase = "Draining"
        /\ Unwrap(SlabGet(0)).bytes_rx > 0
        /\ cleanup.pc = "remove"

\* ------------------------------------------------------------------------
\* Properties of the served connections (LifecycleSpec)
\* ------------------------------------------------------------------------

\* The clients whose task is inside its dispatch loop.
InDispatchLoop == {c \in Clients : conn[c].pc = "select"}

\* C37: while a per-connection task is inside its dispatch loop, its
\* ConnectionId is present in the manager and counted in connection_count;
\* hence the number of connections being served never exceeds the slab
\* capacity, also while the periodic cleanup_idle task runs.
C37_ServedAreRegistered ==
    /\ \A c \in InDispatchLoop :
          /\ IsSome(conn[c].conn_id)
          /\ Unwrap(conn[c].conn_id) \in DOMAIN id_to_handle
          /\ IsSome(Get(Unwrap(conn[c].conn_id)))
    /\ Cardinality(InDispatchLoop) <= ConnectionCount
    /\ Cardinality(InDispatchLoop) <= capacity

\* No register or unregister call is in progress: the task is between
\* calls and cleanup_idle is not inside an unregister.
NoCallInProgress ==
    /\ \A p \in Callers : mcall[p].pc \in {"idle", "registered", "active"}
    /\ cleanup.handle = None

\* C38: unregister is idempotent and safe under races: any number of
\* unregister(id) calls for one registered id removes the connection once,
\* lowers connections_active exactly once and disturbs no other connection;
\* connections_active never wraps below zero and equals connection_count
\* whenever no register or unregister is in progress.
C38_UnregisterOnce ==
    /\ [](/\ metrics.connections_active <= metrics.connections_total
          /\ NoCallInProgress =>
                metrics.connections_active = ConnectionCount)
    /\ [][/\ metrics'.connections_active # metrics.connections_active - 1
             => metrics'.connections_active >= metrics.connections_active
          /\ \A i \in DOMAIN slots :
                (IsSome(slots[i]) /\ slots'[i] # slots[i] /\ slots'[i] = None)
                   => /\ metrics'.connections_active
                            = metrics.connections_active - 1
                      /\ allocated' = allocated - 1
                      /\ Unwrap(slots[i]).id \notin DOMAIN id_to_handle
                      /\ \A j \in DOMAIN slots \ {i} :
                            IsSome(slots[j]) => IsSome(slots'[j])]_vars

\* ------------------------------------------------------------------------
\* Properties of the manager's locks (LockSpec)
\* ------------------------------------------------------------------------

\* Task p, inside a call or holding a guard, can take its next step also
\* when the map's lock makes a reader wait behind a waiting writer.
CanStep(p) ==
    CASE mcall[p].pc = "slab_insert" ->
            IsSome(InsertScan(0)) => slot_lock[Unwrap(InsertScan(0))] = None
      [] mcall[p].pc \in {"map_insert", "map_remove"} -> Readers = {}
      [] mcall[p].pc \in {"slab_remove", "slot"} ->
            slot_lock[Unwrap(mcall[p].handle)] = None
      [] mcall[p].pc \in {"map_get", "map_iter"} -> Writers = {}
      [] mcall[p].pc = "iter" ->
            \A id \in mcall[p].todo : slot_lock[id_to_handle[id]] = None
      [] OTHER -> mcall[p].pc # "idle"

\* C39: concurrent calls of register, activate, unregister, record_traffic,
\* list_connections, cleanup_idle and drain's marking pass complete without
\* deadlock (whenever a task is inside a call, some task inside a call or
\* holding a guard can step), and the map's lock and the slot locks are
\* nested only in the order map then slot: no task takes the map's lock
\* while it holds a slot lock; callers drop the guards of get / get_mut
\* without calling the manager.
C39_NoDeadlock ==
    /\ []((\E p \in LockCallers : mcall[p].pc # "idle")
             => \E p \in LockCallers : CanStep(p))
    /\ [][\A p \in LockCallers :
             (\/ mcall[p].map = "none" /\ mcall'[p].map = "read"
              \/ mcall[p].pc \in {"map_insert", "map_remove"}
                    /\ mcall'[p].pc # mcall[p].pc)
                => HeldSlots(p) = {}]_vars

\* A task holds the map's read lock and waits for a slot whose guard
\* another task got from get.
C39_Witness ==
    \E p, q \in LockCallers :
        /\ mcall[p].pc = "slot"
        /\ mcall[p].map = "read"
        /\ slot_lock[Unwrap(mcall[p].handle)] = Some(q)
        /\ mcall[q].pc = "guard"

\* ------------------------------------------------------------------------
\* Properties of insert on a bitset of several words (SlabRaceLiveSpec)
\* ------------------------------------------------------------------------

\* Every slot in [0, capacity) is occupied, a slot counting as occupied
\* from the moment its bit is claimed until its bit is set again.
FullNow == Cardinality(ClearedBits) = capacity

\* C40: under concurrent insert and remove on a slab whose bitset spans
\* more than one word, insert returns None only if at some instant during
\* the call every slot in [0, capacity) was occupied. Checked in the form:
\* on such a slab, an insert is about to return None only in a behaviour
\* in which the slab is full at some instant.
C40_NoneOnlyWhenFull ==
    \/ <>FullNow
    \/ [](NumWords(capacity) > 1 => \A p \in Procs : spc[p] # "ins_none")

====
